---- MODULE Spec2Model ----
(***************************************************************************)
(* Model of risu-insights: the INI inventory parser, the variable          *)
(* resolver, the selector engine (src/inventory.py and                     *)
(* src/risu_insights/inventory.py), the RISU payload normaliser            *)
(* (src/risu_insights/diagnostics.py and src/runner.py), the per-host loop *)
(* of DiagnosticsRunner.run, the payload extraction strategies             *)
(* (_extract_payload and the slurp output formats of src/runner.py),       *)
(* run_diagnostics of diagnostics.py with its event handler and its CLI    *)
(* fallback, and concurrent runs on localhost that share one output file.  *)
(*                                                                         *)
(* Text is modelled at character level: a Python str is a sequence of      *)
(* one-character strings, so that strip, split, startswith, endswith,      *)
(* replace and fnmatch are computed the way the code computes them.        *)
(* An insertion-ordered Python dict is a sequence of <<key, value>> pairs  *)
(* with unique keys. None and "" are both falsy and are never told apart   *)
(* by the code for the variables modelled here; both are <<>>.             *)
(***************************************************************************)
EXTENDS Integers, Sequences, FiniteSets, TLC

VARIABLES
    file,          \* the inventory file: its lines, in order (the input of a request)
    pc,            \* "start" | "parsed" | "resolved" | "merged" | "ran" | "diagnosing": the call made on the file
    summary,       \* InventorySummary of src/inventory.py (summarise_inventory)
    summaryPkg,    \* InventorySummary of src/risu_insights/inventory.py
    resolved,      \* ResolvedHosts returned by src/inventory.py resolve_hosts
    resolvedPkg,   \* ResolvedHosts returned by src/risu_insights/inventory.py resolve_hosts
    host_arg,      \* the host get_host_variables was last called for
    combined,      \* the dict get_host_variables returned
    payloadIn,     \* the RISU payload handed to the normaliser (the input of a normalisation)
    hostIn,        \* the host name handed to the normaliser
    normalised,    \* "no" | "yes": whether the normaliser was called
    normResult,    \* what parse_risu_payload returned (diagnostics.py)
    normRunner,    \* what DiagnosticsRunner._parse_payload returned (runner.py)
    run_hosts,     \* the hosts argument of DiagnosticsRunner.run (the input of a run)
    target_hosts,  \* target_hosts of the run
    attempts,      \* the hosts _execute_risu was called for, in call order
    report,        \* the DiagnosticsReport the run returned, or that it raised
    blob,          \* the raw text handed to payload extraction (the input of an extraction)
    ext,           \* what each extraction strategy gave for the blob
    diag,          \* the run_diagnostics call of diagnostics.py: its locals and what it returned
    calls,         \* the concurrent DiagnosticsRunner.run calls on localhost: where each one is
    tmp_file       \* /tmp/risu-output-<pid>.json: the call whose RISU wrote it (0: no such file)

invVars == <<file, pc, summary, summaryPkg, resolved, resolvedPkg, host_arg, combined>>

payVars == <<payloadIn, hostIn, normalised, normResult, normRunner>>

runVars == <<run_hosts, target_hosts, attempts, report>>

extVars == <<blob, ext>>

diagVars == <<diag>>

conVars == <<calls, tmp_file>>

\* what the inventory calls leave alone
restVars == <<payVars, runVars, extVars, diagVars, conVars>>

vars == <<invVars, payVars, runVars, extVars, diagVars, conVars>>

-----------------------------------------------------------------------------
(* Python str and list primitives                                          *)

Range(s) == {s[i] : i \in DOMAIN s}

Max(a, b) == IF a >= b THEN a ELSE b

Min(a, b) == IF a <= b THEN a ELSE b

\* str.isspace for the characters of the model
IsWs(c) == c = " "

\* s[i:] (1-based i)
From(s, i) == SubSeq(s, i, Len(s))

RECURSIVE LStrip(_)
LStrip(s) == IF s # <<>> /\ IsWs(Head(s)) THEN LStrip(Tail(s)) ELSE s

RECURSIVE RStrip(_)
RStrip(s) == IF s # <<>> /\ IsWs(s[Len(s)]) THEN RStrip(SubSeq(s, 1, Len(s) - 1)) ELSE s

\* str.strip()
Strip(s) == RStrip(LStrip(s))

\* str.startswith / str.endswith
StartsWith(s, p) == Len(s) >= Len(p) /\ SubSeq(s, 1, Len(p)) = p

EndsWith(s, p) == Len(s) >= Len(p) /\ SubSeq(s, Len(s) - Len(p) + 1, Len(s)) = p

\* sub in s
ContainsSub(s, sub) == \E i \in 1..(Len(s) - Len(sub) + 1) : SubSeq(s, i, i + Len(sub) - 1) = sub

\* index of the first character of s that is in seps, 0 when there is none
FirstIn(s, seps) == IF \E i \in DOMAIN s : s[i] \in seps
                    THEN CHOOSE i \in DOMAIN s : s[i] \in seps /\ \A j \in 1..(i - 1) : s[j] \notin seps
                    ELSE 0

\* re.split(r"[<seps>]", s) and str.split(sep): every separator cuts, empty pieces are kept
RECURSIVE SplitOn(_, _)
SplitOn(s, seps) == LET i == FirstIn(s, seps)
                    IN  IF i = 0 THEN <<s>>
                        ELSE <<SubSeq(s, 1, i - 1)>> \o SplitOn(From(s, i + 1), seps)

\* str.split(sep, 1)
SplitOnce(s, sep) == LET i == FirstIn(s, {sep})
                     IN  IF i = 0 THEN <<s>> ELSE <<SubSeq(s, 1, i - 1), From(s, i + 1)>>

\* str.split(): cut on runs of whitespace, no empty pieces
SplitWs(s) == SelectSeq(SplitOn(s, {" "}), LAMBDA t : t # <<>>)

\* str.replace(old, new), old non-empty: leftmost non-overlapping occurrences
RECURSIVE Replace(_, _, _)
Replace(s, old, new) == IF s = <<>> THEN <<>>
                        ELSE IF StartsWith(s, old) THEN new \o Replace(From(s, Len(old) + 1), old, new)
                        ELSE <<Head(s)>> \o Replace(Tail(s), old, new)

\* list concatenation of a list of lists
RECURSIVE Flatten(_)
Flatten(ss) == IF ss = <<>> THEN <<>> ELSE Head(ss) \o Flatten(Tail(ss))

\* fnmatch.fnmatch(name, pat) on POSIX (normcase is the identity) for patterns
\* made of literal characters, '*' and '?' (the selectors of the model hold no '[')
RECURSIVE FnMatch(_, _)
FnMatch(name, pat) ==
    IF pat = <<>> THEN name = <<>>
    ELSE IF Head(pat) = "*"
         THEN \E k \in 0..Len(name) : FnMatch(From(name, k + 1), Tail(pat))
    ELSE IF name = <<>> THEN FALSE
    ELSE IF Head(pat) = "?" THEN FnMatch(Tail(name), Tail(pat))
    ELSE Head(pat) = Head(name) /\ FnMatch(Tail(name), Tail(pat))

-----------------------------------------------------------------------------
(* Python dict primitives                                                  *)

DHas(d, k) == \E i \in DOMAIN d : d[i][1] = k

DGet(d, k, dflt) == IF DHas(d, k) THEN d[CHOOSE i \in DOMAIN d : d[i][1] = k][2] ELSE dflt

\* d[k] = v
DPut(d, k, v) == IF DHas(d, k)
                 THEN [i \in DOMAIN d |-> IF d[i][1] = k THEN <<k, v>> ELSE d[i]]
                 ELSE Append(d, <<k, v>>)

\* d.setdefault(k, v), for its effect on d
DSetDefault(d, k, v) == IF DHas(d, k) THEN d ELSE Append(d, <<k, v>>)

\* list(d.keys())
DKeys(d) == [i \in DOMAIN d |-> d[i][1]]

\* d.update(e)
RECURSIVE DUpdate(_, _)
DUpdate(d, e) == IF e = <<>> THEN d ELSE DUpdate(DPut(d, Head(e)[1], Head(e)[2]), Tail(e))

-----------------------------------------------------------------------------
(* Literals                                                                *)

ALL == <<"a", "l", "l">>

UNGROUPED == <<"u", "n", "g", "r", "o", "u", "p", "e", "d">>

CHILDREN_SUFFIX == <<":", "c", "h", "i", "l", "d", "r", "e", "n">>

VARS_SUFFIX == <<":", "v", "a", "r", "s">>

-----------------------------------------------------------------------------
(* src/inventory.py                                                        *)

\* SECTION_RE = ^\s*\[([^\]]+)\]\s*$ matched against an already stripped line
SectionMatch(line) == /\ Len(line) >= 3
                      /\ line[1] = "["
                      /\ line[Len(line)] = "]"
                      /\ \A i \in 2..(Len(line) - 1) : line[i] # "]"

SectionName(line) == SubSeq(line, 2, Len(line) - 1)

RECURSIVE DedupeFrom(_, _)
DedupeFrom(values, seen) ==
    IF values = <<>> THEN <<>>
    ELSE IF Head(values) \in seen THEN DedupeFrom(Tail(values), seen)
    ELSE <<Head(values)>> \o DedupeFrom(Tail(values), seen \cup {Head(values)})

_dedupe(values) == DedupeFrom(values, {})

\* the key=value tokens of a host line (parts[1:]), as the dict `assignments`
RECURSIVE Assignments(_)
Assignments(parts) ==
    IF parts = <<>> THEN <<>>
    ELSE LET rest == Assignments(Tail(parts))
             kv   == SplitOnce(Head(parts), "=")
         IN  IF "=" \notin Range(Head(parts)) THEN rest
             ELSE DUpdate(<<<<Strip(kv[1]), Strip(kv[2])>>>>, rest)

\* one iteration of the loop over the lines of the file; st holds the locals
ParseLine(st, raw_line) ==
    LET line == Strip(raw_line) IN
    IF line = <<>> \/ line[1] = "#" THEN st
    ELSE IF SectionMatch(line) THEN
        LET section == SectionName(line)
            cleared == [st EXCEPT !.current_group = <<>>,
                                  !.current_children = <<>>,
                                  !.current_vars_group = <<>>]
            first   == SplitOn(section, {":"})[1]
        IN  IF EndsWith(section, CHILDREN_SUFFIX)
            THEN [cleared EXCEPT !.current_children = first,
                                 !.children = DSetDefault(st.children, first, <<>>)]
            ELSE IF EndsWith(section, VARS_SUFFIX)
            THEN [cleared EXCEPT !.current_vars_group = first,
                                 !.group_vars = DSetDefault(st.group_vars, first, <<>>)]
            ELSE [cleared EXCEPT !.current_group = section,
                                 !.groups = DSetDefault(st.groups, section, <<>>)]
    ELSE IF st.current_children # <<>> THEN
        [st EXCEPT !.children = DPut(st.children, st.current_children,
                                     Append(DGet(st.children, st.current_children, <<>>),
                                            SplitWs(line)[1]))]
    ELSE IF st.current_vars_group # <<>> THEN
        IF "=" \in Range(line)
        THEN LET kv == SplitOnce(line, "=")
                 gv == DSetDefault(st.group_vars, st.current_vars_group, <<>>)
             IN  [st EXCEPT !.group_vars =
                     DPut(gv, st.current_vars_group,
                          DPut(DGet(gv, st.current_vars_group, <<>>), Strip(kv[1]), Strip(kv[2])))]
        ELSE st
    ELSE
        LET parts        == SplitWs(line)
            host         == parts[1]
            target_group == IF st.current_group # <<>> THEN st.current_group ELSE UNGROUPED
            g0           == DSetDefault(st.groups, target_group, <<>>)
            assignments  == Assignments(Tail(parts))
            hv0          == DSetDefault(st.host_vars, host, <<>>)
        IN  [st EXCEPT !.hosts = Append(st.hosts, host),
                       !.groups = DPut(g0, target_group, Append(DGet(g0, target_group, <<>>), host)),
                       !.host_vars = IF assignments # <<>>
                                     THEN DPut(hv0, host, DUpdate(DGet(hv0, host, <<>>), assignments))
                                     ELSE st.host_vars]

\* the locals of parse_inventory before the first line
EmptyLoop == [groups |-> <<>>, children |-> <<>>, hosts |-> <<>>,
              group_vars |-> <<>>, host_vars |-> <<>>,
              current_group |-> <<>>, current_children |-> <<>>, current_vars_group |-> <<>>]

\* for raw_line in handle
RECURSIVE ParseLoop(_, _)
ParseLoop(st, lines) == IF lines = <<>> THEN st ELSE ParseLoop(ParseLine(st, Head(lines)), Tail(lines))

\* the post-pass over children.items(): for parent, child_list in children.items()
RECURSIVE ResolveChildren(_, _)
ResolveChildren(grps, chld) ==
    IF chld = <<>> THEN grps
    ELSE LET parent    == Head(chld)[1]
             aggregate == Flatten([i \in DOMAIN Head(chld)[2] |-> DGet(grps, Head(chld)[2][i], <<>>)])
             g0        == DSetDefault(grps, parent, <<>>)
         IN  ResolveChildren(DPut(g0, parent, _dedupe(DGet(g0, parent, <<>>) \o aggregate)),
                             Tail(chld))

\* if "all" not in groups: groups["all"] = _dedupe(hosts[:])
SynthesizeAll(grps, hs) == IF DHas(grps, ALL) THEN grps ELSE DPut(grps, ALL, _dedupe(hs))

\* parse_inventory after the loop: the InventorySummary it returns
FinishParse(st) ==
    LET g1 == ResolveChildren(st.groups, st.children)
        g2 == SynthesizeAll(g1, st.hosts)
    IN  [hosts      |-> _dedupe(DGet(g2, ALL, <<>>)),
         groups     |-> g2,
         group_vars |-> st.group_vars,
         host_vars  |-> st.host_vars]

\* src/risu_insights/inventory.py _parse_inventory_file after the loop (its loop
\* is the loop of parse_inventory, with the :vars test before the :children test)
SynthesizeAllPkg(grps, all_hosts) ==
    IF DHas(grps, ALL) THEN grps
    ELSE DPut(grps, ALL,
              _dedupe(all_hosts \o Flatten([i \in DOMAIN grps |-> grps[i][2]])))

FinishParsePkg(st) ==
    LET g1 == ResolveChildren(st.groups, st.children)
        g2 == SynthesizeAllPkg(g1, st.hosts)
    IN  [hosts      |-> _dedupe(DGet(g2, ALL, st.hosts)),
         groups     |-> g2,
         group_vars |-> st.group_vars,
         host_vars  |-> st.host_vars]

-----------------------------------------------------------------------------
(* Selector engine, src/inventory.py                                       *)

\* _expand_token: the final "no match and a space in the token" branch returns
\* the same empty list as the line after it
_expand_token(token0, summ) ==
    LET token == Strip(token0) IN
    IF token = <<>> \/ token = ALL THEN summ.hosts
    ELSE IF DHas(summ.groups, token) THEN DGet(summ.groups, token, <<>>)
    ELSE IF token \in Range(summ.hosts) THEN <<token>>
    ELSE SelectSeq(summ.hosts, LAMBDA host : FnMatch(host, token))

\* tokens = [token.strip() for token in re.split(r"[,:]", selector) if token.strip()]
Tokens(selector) ==
    LET pieces == SplitOn(selector, {",", ":"})
        kept   == SelectSeq(pieces, LAMBDA t : Strip(t) # <<>>)
    IN  [i \in DOMAIN kept |-> Strip(kept[i])]

Includes(selector) == SelectSeq(Tokens(selector), LAMBDA t : Head(t) # "!")

Excludes(selector) ==
    LET ex == SelectSeq(Tokens(selector), LAMBDA t : Head(t) = "!")
    IN  [i \in DOMAIN ex |-> Tail(ex[i])]

\* the list the expansion loop walks: includes or ["all"] (the earlier
\* "if not includes and excludes: includes = ['all']" gives the same list)
LoopTokens(selector) == IF Includes(selector) = <<>> THEN <<ALL>> ELSE Includes(selector)

\* A message is a sequence of segments; a segment renders as
\* lit + sep.join(items) + end, and the message as their concatenation.
Seg(lit, sep, items, end) == [lit |-> lit, sep |-> sep, items |-> items, end |-> end]

cSPACE_HOSTS == <<" ", "h", "o", "s", "t", "s">>

cSPACE_SERVERS == <<" ", "s", "e", "r", "v", "e", "r", "s">>

\* suggested = token.replace(' hosts', '').replace(' servers', '').replace('hosts', '').replace('servers', '').strip()
Suggested(token) ==
    Strip(Replace(Replace(Replace(Replace(token, cSPACE_HOSTS, <<>>), cSPACE_SERVERS, <<>>),
                          Tail(cSPACE_HOSTS), <<>>), Tail(cSPACE_SERVERS), <<>>))

RECURSIVE Suggestions(_, _)
Suggestions(unmatched_tokens, summ) ==
    IF unmatched_tokens = <<>> THEN <<>>
    ELSE LET token == Head(unmatched_tokens)
             rest  == Suggestions(Tail(unmatched_tokens), summ)
         IN  IF " " \in Range(token) /\ DHas(summ.groups, Suggested(token))
             THEN <<Seg(". Did you mean '", "' instead of '", <<Suggested(token), token>>, "'?")>> \o rest
             ELSE rest

SAMPLE_HOSTS == 5

\* mutant: the sample is not cut to the first 5 hosts
NoHostsMessageAllHosts(selector, unmatched_tokens, summ) ==
    <<Seg("No hosts matched selector '", "", <<selector>>, "'"),
      Seg(". Available groups: ", ", ", DKeys(summ.groups), ""),
      Seg(". Sample hosts: ", ", ", summ.hosts, "")>>

\* the error_msg built when nothing matched
NoHostsMessage(selector, unmatched_tokens, summ) ==
    LET available_groups == DKeys(summ.groups)
        available_hosts  == SubSeq(summ.hosts, 1, Min(SAMPLE_HOSTS, Len(summ.hosts)))
    IN  <<Seg("No hosts matched selector '", "", <<selector>>, "'")>>
        \o (IF unmatched_tokens # <<>>
            THEN <<Seg(". Unmatched tokens: ", ", ", unmatched_tokens, "")>>
                 \o Suggestions(unmatched_tokens, summ)
            ELSE <<>>)
        \o (IF " " \in Range(selector) /\ "," \notin Range(selector)
            THEN <<Seg(". Note: Selectors with spaces are split. Use comma-separated groups like 'sles,webservers' or just the group name 'sles'", "", <<>>, "")>>
            ELSE <<>>)
        \o (IF available_groups # <<>>
            THEN <<Seg(". Available groups: ", ", ", available_groups, "")>>
            ELSE <<>>)
        \o (IF available_hosts # <<>>
            THEN <<Seg(". Sample hosts: ", ", ", available_hosts, "")>>
            ELSE <<>>)

WarningMessage(unmatched_tokens) ==
    <<Seg("Some selectors didn't match: ", ", ", unmatched_tokens, ". Only matched hosts will be processed.")>>

RECURSIVE DedupeKeepLast(_)
DedupeKeepLast(values) ==
    IF values = <<>> THEN <<>>
    ELSE IF Head(values) \in Range(Tail(values)) THEN DedupeKeepLast(Tail(values))
    ELSE <<Head(values)>> \o DedupeKeepLast(Tail(values))

\* mutant: the deduplication keeps the last appearance of a host
ExpandedKeepLast(selector, summ) ==
    LET loop     == IF Includes(selector) = <<>> THEN <<ALL>> ELSE Includes(selector)
        excludes == Excludes(selector)
        all      == Flatten([i \in DOMAIN loop |-> _expand_token(loop[i], summ)])
        exclusion_set == UNION {Range(_expand_token(excludes[i], summ)) : i \in DOMAIN excludes}
    IN  DedupeKeepLast(SelectSeq(all, LAMBDA host : host \notin exclusion_set))

\* the hosts left after expansion, exclusion and deduplication
Expanded(selector, summ) ==
    LET loop     == LoopTokens(selector)
        excludes == Excludes(selector)
        all      == Flatten([i \in DOMAIN loop |-> _expand_token(loop[i], summ)])
        exclusion_set == UNION {Range(_expand_token(excludes[i], summ)) : i \in DOMAIN excludes}
    IN  _dedupe(IF excludes # <<>>
                THEN SelectSeq(all, LAMBDA host : host \notin exclusion_set)
                ELSE all)

UnmatchedTokens(selector, summ) ==
    SelectSeq(LoopTokens(selector), LAMBDA token : _expand_token(token, summ) = <<>>)

\* resolve_hosts(selector) on the parsed summary
resolve_hosts(selector, summ) ==
    LET expanded         == Expanded(selector, summ)
        unmatched_tokens == UnmatchedTokens(selector, summ)
    IN  IF expanded = <<>>
        THEN [selector |-> selector, hosts |-> <<>>,
              error |-> NoHostsMessage(selector, unmatched_tokens, summ)]
        ELSE [selector |-> selector, hosts |-> expanded,
              error |-> IF unmatched_tokens # <<>> THEN WarningMessage(unmatched_tokens) ELSE <<>>]

\* error.startswith("Some selectors"): of the two messages resolve_hosts builds,
\* the one that opens with the warning literal
StartsWithSomeSelectors(error) == error # <<>> /\ error[1].lit = "Some selectors didn't match: "

\* mutant: any error text, the warning included, makes the result invalid
validated_no_warning(r) == r.hosts # <<>> /\ r.error = <<>>

\* ResolvedHosts.validated
validated(r) == r.hosts # <<>> /\ (r.error = <<>> \/ StartsWithSomeSelectors(r.error))

-----------------------------------------------------------------------------
(* Selector engine, src/risu_insights/inventory.py                         *)

\* _expand_selector
_expand_selector(selector0, summ) ==
    LET selector == Strip(selector0) IN
    IF selector = <<>> \/ selector = ALL THEN summ.hosts
    ELSE IF DHas(summ.groups, selector) THEN DGet(summ.groups, selector, <<>>)
    ELSE IF selector \in Range(summ.hosts) THEN <<selector>>
    ELSE SelectSeq(summ.hosts, LAMBDA host : FnMatch(host, selector))

resolve_hosts_pkg(selector, summ) ==
    LET loop     == LoopTokens(selector)
        excludes == Excludes(selector)
        all      == Flatten([i \in DOMAIN loop |-> _expand_selector(loop[i], summ)])
        exclusion_set == UNION {Range(_expand_selector(excludes[i], summ)) : i \in DOMAIN excludes}
        expanded == _dedupe(IF excludes # <<>>
                            THEN SelectSeq(all, LAMBDA host : host \notin exclusion_set)
                            ELSE all)
    IN  IF expanded = <<>>
        THEN [selector |-> selector, hosts |-> <<>>,
              error |-> <<Seg("No hosts matched selector '", "", <<selector>>, "'")>>]
        ELSE [selector |-> selector, hosts |-> expanded, error |-> <<>>]

\* ResolvedHosts.validated: self.count > 0 and not self.error
validated_pkg(r) == Len(r.hosts) > 0 /\ r.error = <<>>

-----------------------------------------------------------------------------
(* InventorySummary.get_host_variables (the same code in both modules)     *)

\* mutant: a key already set by an earlier group is kept (setdefault for update)
RECURSIVE MergeGroupsFirstWins(_, _, _, _)
MergeGroupsFirstWins(acc, grps, summ, h) ==
    IF grps = <<>> THEN acc
    ELSE LET group   == Head(grps)[1]
             members == Head(grps)[2]
             gv      == DGet(summ.group_vars, group, <<>>)
         IN  IF group = ALL \/ h \notin Range(members)
             THEN MergeGroupsFirstWins(acc, Tail(grps), summ, h)
             ELSE MergeGroupsFirstWins(DUpdate(acc, SelectSeq(gv, LAMBDA kv : ~DHas(acc, kv[1]))),
                                       Tail(grps), summ, h)

RECURSIVE MergeGroups(_, _, _, _)
MergeGroups(acc, grps, summ, h) ==
    IF grps = <<>> THEN acc
    ELSE LET group   == Head(grps)[1]
             members == Head(grps)[2]
         IN  IF group = ALL \/ h \notin Range(members)
             THEN MergeGroups(acc, Tail(grps), summ, h)
             ELSE MergeGroups(DUpdate(acc, DGet(summ.group_vars, group, <<>>)), Tail(grps), summ, h)

get_host_variables(summ, h) ==
    LET globals == DUpdate(<<>>, DGet(summ.group_vars, ALL, <<>>))
    IN  DUpdate(MergeGroups(globals, summ.groups, summ, h), DGet(summ.host_vars, h, <<>>))

-----------------------------------------------------------------------------
(* Result normaliser: src/risu_insights/diagnostics.py and src/runner.py   *)
(*                                                                         *)
(* A JSON value carries its shape. A check entry (plugin_data) is          *)
(*   [shape: "map" | "other", plugin, id, name, description, result]       *)
(* its result is [shape: "absent" | "null" | "map" | "other", rc, err, out]*)
(* and rc is [shape: "absent" | "null" | "int" | "str", v]. A text field   *)
(* that is absent is <<>>: the code reads these fields only through        *)
(* `x or y`, which takes "" and None alike. The fields an issue copies     *)
(* verbatim (category, subcategory, backend, hash) are left out.           *)

RcOf(shape, v) == [shape |-> shape, v |-> v]

\* the value of result.get("rc"): None when the key is absent
RcGet(result) == IF result.rc.shape = "absent" THEN RcOf("null", 0) ELSE result.rc

\* rc in (0, None)
RcIsPass(rc) == rc.shape = "null" \/ (rc.shape = "int" /\ rc.v = 0)

\* mutant: the thresholds are compared with > instead of >=
DeriveSeverityStrict(rc) ==
    IF rc.shape = "null" \/ (rc.shape = "int" /\ rc.v = 0) THEN "info"
    ELSE IF rc.shape # "int" THEN "raise"
    ELSE IF rc.v > 20 THEN "critical"
    ELSE IF rc.v > 10 THEN "major"
    ELSE IF rc.v > 5 THEN "warning"
    ELSE "minor"

\* _derive_severity(rc) of diagnostics.py; "raise": rc >= 20 raises TypeError
\* for an rc that is not a number
_derive_severity(rc) ==
    IF rc.shape = "null" \/ (rc.shape = "int" /\ rc.v = 0) THEN "info"
    ELSE IF rc.shape # "int" THEN "raise"
    ELSE IF rc.v >= 20 THEN "critical"
    ELSE IF rc.v >= 10 THEN "major"
    ELSE IF rc.v >= 5 THEN "warning"
    ELSE "minor"

\* _derive_severity(rc) of runner.py
_derive_severity_runner(rc) ==
    IF rc.shape = "null" \/ (rc.shape = "int" /\ rc.v = 0) THEN "info"
    ELSE IF rc.shape # "int" THEN "raise"
    ELSE IF rc.v >= 20 THEN "critical"
    ELSE IF rc.v >= 10 THEN "major"
    ELSE IF rc.v >= 5 THEN "warning"
    ELSE "minor"

MESSAGE_LIMIT == 400

cELLIPSIS == <<".", ".", ".">>

\* _normalise_message(message) and _normalise(message)
_normalise_message(message) ==
    LET cleaned == Strip(message)
    IN  IF Len(cleaned) > MESSAGE_LIMIT
        THEN SubSeq(cleaned, 1, MESSAGE_LIMIT - 3) \o cELLIPSIS
        ELSE cleaned

\* x or y
Or(x, y) == IF x # <<>> THEN x ELSE y

\* index of the last c in s, 0 when there is none
LastIndex(s, c) == IF c \in Range(s)
                   THEN CHOOSE i \in DOMAIN s : s[i] = c /\ \A j \in (i + 1)..Len(s) : s[j] # c
                   ELSE 0

\* Path(plugin_path).stem for a path that does not end in "/"
PathStem(path) ==
    LET name == From(path, LastIndex(path, "/") + 1)
        dot  == LastIndex(name, ".")
    IN  IF 1 < dot /\ dot < Len(name) THEN SubSeq(name, 1, dot - 1) ELSE name

EmptyAcc == [raised |-> FALSE, passed |-> 0, failed |-> 0, issues |-> <<>>]

\* one iteration of the loop of parse_risu_payload over results.items();
\* raised: plugin_data.get or result.get on a value that is no mapping
\* (AttributeError), or _derive_severity on an rc that is no number (TypeError)
PayloadStep(acc, plugin_id, plugin_data) ==
    IF acc.raised THEN acc
    ELSE IF plugin_data.shape # "map" \/ plugin_data.result.shape = "other"
    THEN [acc EXCEPT !.raised = TRUE]
    ELSE LET result == IF plugin_data.result.shape = "map"
                       THEN plugin_data.result
                       ELSE [shape |-> "map", rc |-> RcOf("absent", 0), err |-> <<>>, out |-> <<>>]
             rc == RcGet(result)
             severity == _derive_severity(rc)
             message == _normalise_message(Or(result.err, Or(result.out, plugin_data.description)))
             plugin_path == Or(plugin_data.plugin, Or(plugin_data.id, plugin_id))
         IN  IF RcIsPass(rc) THEN [acc EXCEPT !.passed = acc.passed + 1]
             ELSE IF severity = "raise" THEN [acc EXCEPT !.raised = TRUE, !.failed = acc.failed + 1]
             ELSE [acc EXCEPT !.failed = acc.failed + 1,
                              !.issues = Append(acc.issues,
                                 [plugin |-> plugin_path,
                                  name |-> Or(plugin_data.name, PathStem(plugin_path)),
                                  severity |-> severity,
                                  rc |-> rc.v,
                                  message |-> message])]

RECURSIVE PayloadLoop(_, _)
PayloadLoop(acc, items) ==
    IF items = <<>> THEN acc
    ELSE PayloadLoop(PayloadStep(acc, Head(items)[1], Head(items)[2]), Tail(items))

\* the same iteration in DiagnosticsRunner._parse_payload
PayloadStepRunner(acc, plugin_id, plugin_data) ==
    IF acc.raised THEN acc
    ELSE IF plugin_data.shape # "map" \/ plugin_data.result.shape = "other"
    THEN [acc EXCEPT !.raised = TRUE]
    ELSE LET result == IF plugin_data.result.shape = "map"
                       THEN plugin_data.result
                       ELSE [shape |-> "map", rc |-> RcOf("absent", 0), err |-> <<>>, out |-> <<>>]
             rc == RcGet(result)
             message == Or(result.err, Or(result.out, plugin_data.description))
             severity == _derive_severity_runner(rc)
         IN  IF RcIsPass(rc) THEN [acc EXCEPT !.passed = acc.passed + 1]
             ELSE IF severity = "raise" THEN [acc EXCEPT !.raised = TRUE, !.failed = acc.failed + 1]
             ELSE [acc EXCEPT !.failed = acc.failed + 1,
                              !.issues = Append(acc.issues,
                                 [plugin |-> Or(plugin_data.plugin, plugin_id),
                                  name |-> Or(plugin_data.name, plugin_id),
                                  severity |-> severity,
                                  rc |-> rc.v,
                                  message |-> _normalise_message(message)])]

RECURSIVE PayloadLoopRunner(_, _)
PayloadLoopRunner(acc, items) ==
    IF items = <<>> THEN acc
    ELSE PayloadLoopRunner(PayloadStepRunner(acc, Head(items)[1], Head(items)[2]), Tail(items))

\* what a call that raised leaves: no result
Raised(h) == [raised |-> TRUE, host |-> h, total_checks |-> 0, passed |-> 0, failed |-> 0,
              skipped |-> 0, issues |-> <<>>, has_metadata |-> FALSE]

\* mutant: total_checks counts the passed checks only
DiagnosticResultPassedOnly(h, payload, acc) ==
    [raised |-> FALSE, host |-> h,
     total_checks |-> acc.passed,
     passed |-> acc.passed, failed |-> acc.failed,
     skipped |-> Max(acc.passed - acc.passed - acc.failed, 0),
     issues |-> acc.issues,
     has_metadata |-> payload.metadata = "map"]

\* mutant: the result is built for a fixed host name
DiagnosticResultFixedHost(h, payload, acc) ==
    [raised |-> FALSE, host |-> <<"l", "o", "c", "a", "l", "h", "o", "s", "t">>,
     total_checks |-> Len(payload.results),
     passed |-> acc.passed, failed |-> acc.failed,
     skipped |-> Max(Len(payload.results) - acc.passed - acc.failed, 0),
     issues |-> acc.issues,
     has_metadata |-> payload.metadata = "map"]

\* the DiagnosticResult built after the loop; payload.results is the dict that
\* payload.get("results", {}) returned
DiagnosticResult(h, payload, acc) ==
    [raised |-> FALSE, host |-> h,
     total_checks |-> Len(payload.results),
     passed |-> acc.passed, failed |-> acc.failed,
     skipped |-> Max(Len(payload.results) - acc.passed - acc.failed, 0),
     issues |-> acc.issues,
     has_metadata |-> payload.metadata = "map"]

\* parse_risu_payload(host, payload). payload.shape tells what "results" holds:
\* "absent" (the default {} is used), "map", or "null" (None.items() raises)
parse_risu_payload(h, payload) ==
    LET acc == PayloadLoop(EmptyAcc, payload.results)
    IN  IF payload.shape = "null" \/ acc.raised THEN Raised(h)
        ELSE DiagnosticResult(h, payload, acc)

\* DiagnosticsRunner._parse_payload(host, payload); dict(payload.get("metadata", {}))
\* raises when "metadata" holds null
_parse_payload(h, payload) ==
    LET acc == PayloadLoopRunner(EmptyAcc, payload.results)
    IN  IF payload.shape = "null" \/ acc.raised \/ payload.metadata = "null" THEN Raised(h)
        ELSE [raised |-> FALSE, host |-> h,
              total_checks |-> Len(payload.results),
              passed |-> acc.passed, failed |-> acc.failed,
              skipped |-> Max(Len(payload.results) - acc.passed - acc.failed, 0),
              issues |-> acc.issues,
              has_metadata |-> payload.metadata = "map"]

\* DiagnosticResult.issues_found
issues_found(r) == Len(r.issues)

EmptyPayload == [shape |-> "absent", results |-> <<>>, metadata |-> "absent"]

-----------------------------------------------------------------------------
(* State machine: calls made on one inventory file                         *)

\* parse_inventory(inventory_path)
parse_inventory(lines) == FinishParse(ParseLoop(EmptyLoop, lines))

\* _parse_inventory_file(inventory_path)
_parse_inventory_file(lines) == FinishParsePkg(ParseLoop(EmptyLoop, lines))

EmptySummary == [hosts |-> <<>>, groups |-> <<>>, group_vars |-> <<>>, host_vars |-> <<>>]

NoResult == [selector |-> <<>>, hosts |-> <<>>, error |-> <<>>]

\* no payload is being normalised
PayIdle ==
    /\ payloadIn = EmptyPayload
    /\ hostIn = <<>>
    /\ normalised = "no"
    /\ normResult = Raised(<<>>)
    /\ normRunner = Raised(<<>>)

\* the report before any run: nothing returned yet
NoReport == [raised |-> FALSE, status |-> "none", hosts |-> <<>>, errors |-> <<>>]

\* no run was made
RunIdle ==
    /\ run_hosts = <<>>
    /\ target_hosts = <<>>
    /\ attempts = <<>>
    /\ report = NoReport

\* no extraction was made
ExtIdle ==
    /\ blob = <<>>
    /\ ext = [done |-> FALSE]

\* no fact, and no event
NoFact == [kind |-> "none", text |-> <<>>, v |-> [t |-> "none", s |-> <<>>, m |-> <<>>]]

NoEvent ==
    [event |-> "none", host |-> <<>>, host_name |-> <<>>, inventory_hostname |-> <<>>,
     inventory_hostname_short |-> <<>>, stdout |-> <<>>, msg |-> <<>>, stderr |-> <<>>,
     fact |-> NoFact]

\* run_diagnostics was not called. phase is "idle", "running" (interface.run
\* is delivering events), "returned" or "raised"; commands lists what was
\* started: the playbook, and each CLI execution with its host
NoDiag ==
    [phase |-> "idle", hosts |-> <<>>, target_hosts |-> <<>>, commands |-> <<>>,
     host_logs |-> <<>>, host_payloads |-> <<>>, errors |-> <<>>,
     handled |-> 0, last_event |-> NoEvent,
     status |-> "none", results |-> <<>>, runner_status |-> "none"]

DiagIdle == diag = NoDiag

\* no call on localhost is in progress and the output file does not exist
ConIdle ==
    /\ calls = <<>>
    /\ tmp_file = 0

InvInit(files) ==
    /\ file \in files
    /\ pc = "start"
    /\ summary = EmptySummary
    /\ summaryPkg = EmptySummary
    /\ resolved = NoResult
    /\ resolvedPkg = NoResult
    /\ host_arg = <<>>
    /\ combined = <<>>

\* summarise_inventory(inventory)
Summarise ==
    /\ pc = "start"
    /\ summary' = parse_inventory(file)
    /\ summaryPkg' = _parse_inventory_file(file)
    /\ pc' = "parsed"
    /\ UNCHANGED <<file, resolved, resolvedPkg, host_arg, combined, restVars>>

\* resolve_hosts(selector, inventory): parses the file, then resolves
Resolve(selector) ==
    /\ pc = "start"
    /\ LET summ    == parse_inventory(file)
           summPkg == _parse_inventory_file(file)
       IN  /\ summary' = summ
           /\ summaryPkg' = summPkg
           /\ resolved' = resolve_hosts(selector, summ)
           /\ resolvedPkg' = resolve_hosts_pkg(selector, summPkg)
    /\ pc' = "resolved"
    /\ UNCHANGED <<file, host_arg, combined, restVars>>

\* summary.get_host_variables(h) on a summary already built
GetHostVariables(h) ==
    /\ pc = "parsed"
    /\ host_arg' = h
    /\ combined' = get_host_variables(summary, h)
    /\ pc' = "merged"
    /\ UNCHANGED <<file, summary, summaryPkg, resolved, resolvedPkg, restVars>>

\* parse_risu_payload(host, payload) and DiagnosticsRunner._parse_payload(host, payload)
Normalise ==
    /\ normalised = "no"
    /\ normResult' = parse_risu_payload(hostIn, payloadIn)
    /\ normRunner' = _parse_payload(hostIn, payloadIn)
    /\ normalised' = "yes"
    /\ UNCHANGED <<invVars, payloadIn, hostIn, runVars, extVars, diagVars, conVars>>

-----------------------------------------------------------------------------
(* Inputs of the inventory specification                                   *)

MaxLines == 4

MaxFleet == 6

Header(name) == <<"[">> \o name \o <<"]">>

\* every file of at most n lines drawn from lines
FilesOf(lines, n) == UNION {[1..k -> lines] : k \in 0..n}

InvLines ==
    { Header(ALL), Header(<<"g">>), Header(<<"p">> \o CHILDREN_SUFFIX), Header(ALL \o CHILDREN_SUFFIX),
      <<"a">>, <<"b", " ">>, <<"g">> }

DIGITS == <<"1", "2", "3", "4", "5", "6", "7", "8", "9">>

FleetHost(i) == <<"h", DIGITS[i]>>

\* a fleet of n hosts h1..hn, one per line, the header [g] before line j + 1
\* (j = n + 1: no header)
FleetFile(n, j) ==
    LET lines == [i \in 1..n |-> FleetHost(i)]
    IN  IF j > n THEN lines
        ELSE SubSeq(lines, 1, j) \o <<Header(<<"g">>)>> \o SubSeq(lines, j + 1, n)

FleetFiles == {FleetFile(n, j) : n \in 0..MaxFleet, j \in 0..(MaxFleet + 1)}

cG_HOSTS == <<"g">> \o cSPACE_HOSTS

InvSelectors ==
    { ALL, <<"g">>, ALL \o <<",", "!", "g">>, <<"b", ",", "g">>, <<"z">>,
      <<"!", "a">>, <<"*">>, <<"z", ",", "a">>, <<"b", ",">> \o ALL \o <<":", " ", "!", "g">>,
      <<"!">> \o ALL, cG_HOSTS, <<"h", "?", ",", "z">> }

Init == InvInit(FilesOf(InvLines, MaxLines) \cup FleetFiles) /\ PayIdle /\ RunIdle /\ ExtIdle /\ DiagIdle /\ ConIdle

ResolveInv == \E selector \in InvSelectors : Resolve(selector)

Next == Summarise \/ ResolveInv

Spec == Init /\ [][Next]_vars

-----------------------------------------------------------------------------
(* Properties of the inventory model and the selector engine               *)

NoDup(s) == \A i, j \in DOMAIN s : i # j => s[i] # s[j]

Members(summ, g) == Range(DGet(summ.groups, g, <<>>))

GroupNames(summ) == Range(DKeys(summ.groups))

AllIsSuperset(summ) ==
    /\ \A g \in GroupNames(summ) : Members(summ, g) \subseteq Members(summ, ALL)
    /\ \A g \in GroupNames(summ) : Members(summ, g) \subseteq Range(summ.hosts)
    /\ NoDup(summ.hosts)

\* C1: after parse_inventory (either module), groups["all"] holds every member
\* of every other group, every host of any group is in hosts, and hosts has no
\* host twice, whether or not the file declares a section named all.
C1_AllIsSuperset == pc # "start" => AllIsSuperset(summary) /\ AllIsSuperset(summaryPkg)

\* C2: resolve_hosts(s).hosts has no host twice and every host in it is a
\* member of the parsed model's hosts list.
C2_ResolvedWithinHosts ==
    pc = "resolved" => /\ NoDup(resolved.hosts)
                       /\ Range(resolved.hosts) \subseteq Range(summary.hosts)

ExclusionUnion(summ, g) ==
    Range(resolve_hosts(ALL \o <<",", "!">> \o g, summ).hosts) \cup Range(resolve_hosts(g, summ).hosts)
        = Range(resolve_hosts(ALL, summ).hosts)

ExclusionUnionPkg(summ, g) ==
    Range(resolve_hosts_pkg(ALL \o <<",", "!">> \o g, summ).hosts) \cup Range(resolve_hosts_pkg(g, summ).hosts)
        = Range(resolve_hosts_pkg(ALL, summ).hosts)

\* C3: for every group name g of the inventory, the hosts of "all,!g" together
\* with the hosts of "g" are, as a set, the hosts of "all".
C3_ExclusionUnion ==
    pc = "parsed" => /\ \A g \in GroupNames(summary) : ExclusionUnion(summary, g)
                     /\ \A g \in GroupNames(summaryPkg) : ExclusionUnionPkg(summaryPkg, g)

\* the expansions of the inclusion tokens, concatenated in selector order
Included(selector, summ) ==
    Flatten([i \in DOMAIN LoopTokens(selector) |-> _expand_token(LoopTokens(selector)[i], summ)])

\* the hosts of the expansions of the exclusion tokens
ExcludedSet(selector, summ) ==
    UNION {Range(_expand_token(Excludes(selector)[i], summ)) : i \in DOMAIN Excludes(selector)}

\* s is t with some elements left out, the others in the order of t
RECURSIVE IsSubsequence(_, _)
IsSubsequence(s, t) ==
    IF s = <<>> THEN TRUE
    ELSE IF t = <<>> THEN FALSE
    ELSE IF Head(s) = Head(t) THEN IsSubsequence(Tail(s), Tail(t))
    ELSE IsSubsequence(s, Tail(t))

\* C4: resolve_hosts(s).hosts is the concatenation of the expansions of the
\* inclusion tokens (["all"] when the selector has none) in selector order,
\* deduplicated keeping the first appearance, with exactly the hosts of the
\* exclusion expansions removed; the survivors keep their relative order.
C4_FirstAppearanceOrder ==
    pc = "resolved" =>
        LET included == _dedupe(Included(resolved.selector, summary))
            excluded == ExcludedSet(resolved.selector, summary)
        IN  /\ resolved.hosts = SelectSeq(included, LAMBDA h : h \notin excluded)
            /\ IsSubsequence(resolved.hosts, included)
            /\ Range(resolved.hosts) = Range(included) \ excluded

\* C4 witness: "b,all: !g" on the hosts a, b, g gives b before a: the order of
\* first appearance across the tokens, which is neither the inventory's order
\* nor the lexical one, with a duplicate dropped and an excluded host removed.
C4_Witness ==
    /\ pc = "resolved"
    /\ resolved.selector = <<"b", ",">> \o ALL \o <<":", " ", "!", "g">>
    /\ summary.hosts = <<<<"a">>, <<"b">>, <<"g">>>>
    /\ resolved.hosts = <<<<"b">>, <<"a">>>>

\* the segments of a message that open with the literal lit
SegmentsOf(error, lit) == SelectSeq(error, LAMBDA seg : seg.lit = lit)

\* C5: whenever no host is left after the exclusions, resolve_hosts of
\* src/inventory.py returns hosts = [], validated = false and an error that
\* holds "No hosts matched", the raw selector, every known group name and at
\* most 5 sample host names.
C5_NoHostsError ==
    (pc = "resolved"
        /\ Range(Included(resolved.selector, summary)) \ ExcludedSet(resolved.selector, summary) = {})
    => /\ resolved.hosts = <<>>
       /\ ~validated(resolved)
       /\ resolved.error # <<>>
       /\ resolved.error[1].lit = "No hosts matched selector '"
       /\ resolved.error[1].items = <<resolved.selector>>
       /\ Len(SegmentsOf(resolved.error, ". Available groups: ")) = 1
       /\ GroupNames(summary) \subseteq Range(SegmentsOf(resolved.error, ". Available groups: ")[1].items)
       /\ Len(SegmentsOf(resolved.error, ". Sample hosts: ")) <= 1
       /\ \A i \in DOMAIN SegmentsOf(resolved.error, ". Sample hosts: ") :
            LET sample == SegmentsOf(resolved.error, ". Sample hosts: ")[i].items
            IN  /\ Len(sample) <= 5
                /\ Range(sample) \subseteq Range(summary.hosts)

\* C5 witness: an inventory of more than 5 hosts, none of which is selected:
\* the message lists 5 of them.
C5_Witness ==
    /\ pc = "resolved"
    /\ Len(summary.hosts) > 5
    /\ resolved.hosts = <<>>
    /\ Len(SegmentsOf(resolved.error, ". Sample hosts: ")) = 1
    /\ Len(SegmentsOf(resolved.error, ". Sample hosts: ")[1].items) = 5

\* C6: when hosts are left but an inclusion token expanded to nothing,
\* resolve_hosts of src/inventory.py returns the hosts with validated = true
\* and a warning naming every unmatched inclusion token; and validated is true
\* exactly when hosts is non-empty.
C6_WarningKeepsValidated ==
    pc = "resolved" =>
        LET loop      == LoopTokens(resolved.selector)
            unmatched == {t \in Range(loop) : _expand_token(t, summary) = <<>>}
        IN  /\ validated(resolved) <=> resolved.hosts # <<>>
            /\ (resolved.hosts # <<>> /\ unmatched # {}) =>
                  /\ validated(resolved)
                  /\ Len(resolved.error) = 1
                  /\ resolved.error[1].lit = "Some selectors didn't match: "
                  /\ unmatched \subseteq Range(resolved.error[1].items)

\* C6 witness: "z,a" where a is a host and z matches nothing.
C6_Witness ==
    /\ pc = "resolved"
    /\ resolved.selector = <<"z", ",", "a">>
    /\ resolved.hosts = <<<<"a">>>>
    /\ resolved.error # <<>>
    /\ validated(resolved)

-----------------------------------------------------------------------------
(* Inputs of the variable specification: files made of whole sections      *)

MaxBlocks == 4

cK(v) == <<"k", "=", v>>

VarBlocks ==
    { <<Header(<<"g">>), <<"a">>>>,
      <<Header(<<"w">>), <<"a">>, <<"b">>>>,
      <<Header(<<"p">> \o CHILDREN_SUFFIX), <<"g">>>>,
      <<Header(<<"g">> \o VARS_SUFFIX), cK("1")>>,
      <<Header(<<"w">> \o VARS_SUFFIX), cK("2")>>,
      <<Header(<<"p">> \o VARS_SUFFIX), cK("3")>>,
      <<Header(ALL \o VARS_SUFFIX), cK("4")>>,
      <<Header(<<"g">>), <<"a", " ">> \o cK("5")>> }

VarFiles == {Flatten(blocks) : blocks \in FilesOf(VarBlocks, MaxBlocks)}

VarHosts == {<<"a">>, <<"b">>}

InitVars == InvInit(VarFiles) /\ PayIdle /\ RunIdle /\ ExtIdle /\ DiagIdle /\ ConIdle

GetVars == \E h \in VarHosts : GetHostVariables(h)

NextVars == Summarise \/ GetVars

SpecVars == InitVars /\ [][NextVars]_vars

-----------------------------------------------------------------------------
(* Properties of the variable resolver                                     *)

\* what the loop of parse_inventory holds after the first i lines of the file
LoopAfter(i) == ParseLoop(EmptyLoop, SubSeq(file, 1, i))

\* the number of the line that declares group g by a [g] header or by a host
\* line outside any section (0: no such line)
DirectLine(g) ==
    IF \E i \in 1..Len(file) : DHas(LoopAfter(i).groups, g)
    THEN CHOOSE i \in 1..Len(file) : DHas(LoopAfter(i).groups, g) /\ ~DHas(LoopAfter(i - 1).groups, g)
    ELSE 0

\* the number of the line of the first [g:children] header (0: no such line)
ChildrenLine(g) ==
    IF \E i \in 1..Len(file) : DHas(LoopAfter(i).children, g)
    THEN CHOOSE i \in 1..Len(file) : DHas(LoopAfter(i).children, g) /\ ~DHas(LoopAfter(i - 1).children, g)
    ELSE 0

\* the place of a group in the file: its declaring line, and for a group that
\* only a [g:children] header introduces, the line of that header
PlaceInFile(g) == IF DirectLine(g) # 0 THEN DirectLine(g) ELSE ChildrenLine(g)

\* the place of a group in the groups dict: the groups of the loop in the order
\* of their declaring lines, then the groups that only a [g:children] header
\* introduces, in the order of those headers
PlaceInModel(g) == IF DirectLine(g) # 0 THEN DirectLine(g) ELSE Len(file) + ChildrenLine(g)

\* the groups other than all that hold h and define key
Definers(h, key) ==
    {g \in GroupNames(summary) \ {ALL} :
        h \in Members(summary, g) /\ DHas(DGet(summary.group_vars, g, <<>>), key)}

VarKeys == {<<"k">>}

Absent == <<"absent">>

\* the place of group g: in the file (kind "file") or in the groups dict
Place(kind, g) == IF kind = "file" THEN PlaceInFile(g) ELSE PlaceInModel(g)

\* the value the three tiers give key for host h, the groups ranked by place
Expected(h, key, kind) ==
    IF DHas(DGet(summary.host_vars, h, <<>>), key)
    THEN DGet(DGet(summary.host_vars, h, <<>>), key, Absent)
    ELSE IF Definers(h, key) # {}
    THEN LET last == CHOOSE g \in Definers(h, key) :
                        \A o \in Definers(h, key) : Place(kind, o) <= Place(kind, g)
         IN  DGet(DGet(summary.group_vars, last, <<>>), key, Absent)
    ELSE DGet(DGet(summary.group_vars, ALL, <<>>), key, Absent)

\* C7 as stated: host value, else the value of the member group declared latest
\* in the file (a children-only group at its [name:children] header), else the
\* value of all.
C7_LatestInFileWins ==
    pc = "merged" => \A key \in VarKeys : DGet(combined, key, Absent) = Expected(host_arg, key, "file")

\* C7 amended: host value, else the value of the member group latest in the
\* groups dict, where the groups that only a [name:children] header introduces
\* come after every group declared by a [name] header or a host line, else the
\* value of all.
C7_LatestInModelWins ==
    pc = "merged" =>
        /\ \A key \in VarKeys : DGet(combined, key, Absent) = Expected(host_arg, key, "model")
        /\ get_host_variables(summaryPkg, host_arg) = combined

\* C7 witness: p is introduced by [p:children] before [g]; both define k and
\* hold the host, and the value of p is the one returned.
C7_Witness ==
    /\ pc = "merged"
    /\ host_arg = <<"a">>
    /\ {<<"g">>, <<"p">>} \subseteq Definers(host_arg, <<"k">>)
    /\ DirectLine(<<"p">>) = 0
    /\ ChildrenLine(<<"p">>) < DirectLine(<<"g">>)
    /\ ~DHas(DGet(summary.host_vars, host_arg, <<>>), <<"k">>)
    /\ DGet(combined, <<"k">>, Absent) = <<"3">>

-----------------------------------------------------------------------------
(* Inputs of the payload specification                                     *)

MaxChecks == 2

RcValues == {-3, 0, 1, 4, 5, 9, 10, 19, 20, 25}

cPLUGIN_PATH == <<"/", "x", "/", "c", ".", "s", "h">>

Entry(shape, plugin, description, resultShape, rc, err, out) ==
    [shape |-> shape, plugin |-> plugin, id |-> <<>>, name |-> <<>>, description |-> description,
     result |-> [shape |-> resultShape, rc |-> rc, err |-> err, out |-> out]]

PayEntries ==
    {Entry("map", <<>>, <<"d">>, "map", RcOf("int", v), <<"e">>, <<>>) : v \in RcValues}
    \cup { Entry("map", cPLUGIN_PATH, <<"d">>, "map", RcOf("int", 12), <<>>, <<" ", "o">>),
           Entry("map", <<>>, <<>>, "map", RcOf("absent", 0), <<>>, <<>>),
           Entry("map", <<>>, <<>>, "map", RcOf("null", 0), <<>>, <<>>),
           Entry("map", <<>>, <<>>, "null", RcOf("absent", 0), <<>>, <<>>),
           Entry("map", <<>>, <<>>, "absent", RcOf("absent", 0), <<>>, <<>>),
           Entry("map", <<>>, <<>>, "other", RcOf("absent", 0), <<>>, <<>>),
           Entry("map", <<>>, <<>>, "map", RcOf("str", 0), <<>>, <<>>),
           Entry("other", <<>>, <<>>, "absent", RcOf("absent", 0), <<>>, <<>>) }

\* the results dict whose i-th key is p<i>
ResultsOf(entries) == [i \in DOMAIN entries |-> <<<<"p", DIGITS[i]>>, entries[i]>>]

Payloads ==
    {[shape |-> "map", results |-> ResultsOf(entries), metadata |-> m] :
        entries \in FilesOf(PayEntries, MaxChecks), m \in {"absent", "map", "null"}}
    \cup {[shape |-> sh, results |-> <<>>, metadata |-> "absent"] : sh \in {"absent", "null"}}

PayHosts == {<<"a">>, <<"h", "1">>}

InitPayload ==
    /\ InvInit({<<>>})
    /\ RunIdle
    /\ ExtIdle
    /\ DiagIdle
    /\ ConIdle
    /\ payloadIn \in Payloads
    /\ hostIn \in PayHosts
    /\ normalised = "no"
    /\ normResult = Raised(<<>>)
    /\ normRunner = Raised(<<>>)

NextPayload == Normalise

SpecPayload == InitPayload /\ [][NextPayload]_vars

-----------------------------------------------------------------------------
(* Properties of the result normaliser                                     *)

Counts(r, n) ==
    /\ r.total_checks = n
    /\ r.skipped = Max(r.total_checks - r.passed - r.failed, 0)
    /\ r.skipped >= 0
    /\ r.passed >= 0
    /\ r.failed >= 0

\* C8: every normalised per-host result has total_checks = the number of
\* entries of results, skipped = max(total_checks - passed - failed, 0), and
\* skipped, passed and failed are never negative; also with zero checks.
C8_SkippedFormula ==
    normalised = "yes" =>
        /\ ~normResult.raised => Counts(normResult, Len(payloadIn.results))
        /\ ~normRunner.raised => Counts(normRunner, Len(payloadIn.results))

\* C8 witness: two checks, one passed and one failed, nothing skipped.
C8_Witness ==
    /\ normalised = "yes"
    /\ ~normResult.raised
    /\ Len(payloadIn.results) = 2
    /\ normResult.total_checks = 2
    /\ normResult.passed = 1
    /\ normResult.failed = 1
    /\ normResult.skipped = 0

\* C9: the result parse_risu_payload(host, payload) returns has the given host
\* and never more issues than total_checks.
C9_HostAndIssueCount ==
    (normalised = "yes" /\ ~normResult.raised) =>
        /\ normResult.host = hostIn
        /\ issues_found(normResult) <= normResult.total_checks

\* C9 witness: a result for host h1 with one issue among two checks.
C9_Witness ==
    /\ normalised = "yes"
    /\ ~normResult.raised
    /\ hostIn = <<"h", "1">>
    /\ normResult.host = <<"h", "1">>
    /\ issues_found(normResult) = 1
    /\ normResult.total_checks = 2

\* the severity the thresholds give a non-zero integer return code
SeverityOf(v) ==
    IF v >= 20 THEN "critical"
    ELSE IF v >= 10 /\ v < 20 THEN "major"
    ELSE IF v >= 5 /\ v < 10 THEN "warning"
    ELSE "minor"

\* the non-zero integer return codes of the checks of a results dict, in order
RECURSIVE FailingCodes(_)
FailingCodes(items) ==
    IF items = <<>> THEN <<>>
    ELSE LET res == Head(items)[2].result
         IN  IF res.shape = "map" /\ res.rc.shape = "int" /\ res.rc.v # 0
             THEN <<res.rc.v>> \o FailingCodes(Tail(items))
             ELSE FailingCodes(Tail(items))

SeveritiesMatch(r, items) ==
    /\ Len(r.issues) = Len(FailingCodes(items))
    /\ r.passed = Len(items) - Len(FailingCodes(items))
    /\ \A i \in DOMAIN r.issues :
          /\ r.issues[i].rc = FailingCodes(items)[i]
          /\ r.issues[i].severity = SeverityOf(r.issues[i].rc)
          /\ r.issues[i].severity # "info"

\* C10: a check whose rc is absent or 0 is a pass and gives no issue; rc >= 20
\* gives critical, 10..19 major, 5..9 warning, every other non-zero rc minor;
\* no issue has severity info.
C10_SeverityThresholds ==
    normalised = "yes" =>
        /\ ~normResult.raised => SeveritiesMatch(normResult, payloadIn.results)
        /\ ~normRunner.raised => SeveritiesMatch(normRunner, payloadIn.results)

\* C10 witness: rc = -3 gives minor and rc = 20 gives critical.
C10_Witness ==
    /\ normalised = "yes"
    /\ ~normResult.raised
    /\ Len(normResult.issues) = 2
    /\ normResult.issues[1].rc = -3
    /\ normResult.issues[1].severity = "minor"
    /\ normResult.issues[2].rc = 20
    /\ normResult.issues[2].severity = "critical"

-----------------------------------------------------------------------------
(* Malformed entries of a payload                                          *)

\* an entry of unexpected shape: its value is no mapping, or its rc is no number
MalformedEntry(plugin_data) ==
    \/ plugin_data.shape # "map"
    \/ (plugin_data.result.shape = "map" /\ plugin_data.result.rc.shape = "str")

\* an entry the loop reads without raising
ReadableEntry(plugin_data) ==
    /\ plugin_data.shape = "map"
    /\ plugin_data.result.shape # "other"
    /\ plugin_data.result.rc.shape # "str"

\* the positions of the malformed entries of a results dict
MalformedAt(items) == {i \in DOMAIN items : MalformedEntry(items[i][2])}

\* a results dict without its i-th entry
WithoutEntry(items, i) == SubSeq(items, 1, i - 1) \o SubSeq(items, i + 1, Len(items))

\* the counts of r are those of the payload without its i-th entry
SkippedEntry(r, rest) ==
    /\ ~r.raised
    /\ ~rest.raised
    /\ r.passed = rest.passed
    /\ r.failed = rest.failed
    /\ r.issues = rest.issues

\* C15: when exactly one entry of results has an unexpected shape (its value is
\* no mapping, or its rc is no number) and the rest of the payload is well
\* formed, normalization does not raise and returns the result computed from
\* the remaining entries.
C15_MalformedEntrySkipped ==
    (/\ normalised = "yes"
     /\ payloadIn.shape = "map"
     /\ payloadIn.metadata # "null"
     /\ Cardinality(MalformedAt(payloadIn.results)) = 1
     /\ \A i \in DOMAIN payloadIn.results :
           i \notin MalformedAt(payloadIn.results) => ReadableEntry(payloadIn.results[i][2]))
    => LET i == CHOOSE j \in MalformedAt(payloadIn.results) : TRUE
           rest == [payloadIn EXCEPT !.results = WithoutEntry(payloadIn.results, i)]
       IN  /\ SkippedEntry(normResult, parse_risu_payload(hostIn, rest))
           /\ SkippedEntry(normRunner, _parse_payload(hostIn, rest))

-----------------------------------------------------------------------------
(* Children sections: files made of whole sections that nest                *)

MaxSections == 3

ChildBlocks ==
    { <<Header(<<"p">> \o CHILDREN_SUFFIX), <<"q">>>>,
      <<Header(<<"q">> \o CHILDREN_SUFFIX), <<"g">>>>,
      <<Header(<<"p">> \o CHILDREN_SUFFIX), <<"g">>>>,
      <<Header(<<"g">>), <<"a">>>>,
      <<Header(<<"g">>), <<"b">>>>,
      <<Header(<<"q">>), <<"b">>>> }

ChildFiles == {Flatten(blocks) : blocks \in FilesOf(ChildBlocks, MaxSections)}

InitChildren == InvInit(ChildFiles) /\ PayIdle /\ RunIdle /\ ExtIdle /\ DiagIdle /\ ConIdle

NextChildren == Summarise

SpecChildren == InitChildren /\ [][NextChildren]_vars

\* the children dict the loop of parse_inventory built from the file:
\* parent -> the groups its [parent:children] sections list
ChildrenOf(lines) == ParseLoop(EmptyLoop, lines).children

\* every member of a listed child group is a member of the parent
ChildrenAggregated(summ, chld) ==
    \A i \in DOMAIN chld :
        \A j \in DOMAIN chld[i][2] :
            Members(summ, chld[i][2][j]) \subseteq Members(summ, chld[i][1])

\* C20: after parsing, for every section [p:children] that lists a group c,
\* every member of groups[c] is a member of groups[p], also when c is itself
\* defined by a children section, whatever the order of the sections.
C20_ChildrenAggregated ==
    pc = "parsed" =>
        /\ ChildrenAggregated(summary, ChildrenOf(file))
        /\ ChildrenAggregated(summaryPkg, ChildrenOf(file))

-----------------------------------------------------------------------------
(* DiagnosticsRunner.run, src/runner.py                                    *)
(*                                                                         *)
(* What _execute_risu does for one host is an input of the run: it returns *)
(* a payload, or raises. outcome = [kind |-> "payload" | "raise", payload, *)
(* exc], exc being the message of the exception.                           *)

\* RuntimeError(f"RISU execution failed: {error_msg}") of _run_remote_risu
cEXEC_FAILED == <<Seg("RISU execution failed: ", "", <<>>, "")>>

\* the message of the exception _parse_payload lets escape
cPARSE_FAILED == <<Seg("'str' object has no attribute 'get'", "", <<>>, "")>>

\* f"{host}: {exc}"
HostError(h, exc) == <<Seg("", "", <<h>>, ": ")>> \o exc

\* f"Warning: {resolved.error}"
WarningError(error) == <<Seg("Warning: ", "", <<>>, "")>> \o error

EmptyRun == [attempts |-> <<>>, results |-> <<>>, errors |-> <<>>]

\* mutant: the first exception ends the loop
RunStepAbort(acc, h, outcome) ==
    IF Len(acc.errors) > 0 /\ acc.errors[Len(acc.errors)][1].lit = "" THEN acc
    ELSE LET tried == [acc EXCEPT !.attempts = Append(acc.attempts, h)]
             parsed == _parse_payload(h, outcome.payload)
         IN  IF outcome.kind = "raise"
             THEN [tried EXCEPT !.errors = Append(tried.errors, HostError(h, outcome.exc))]
             ELSE IF parsed.raised
             THEN [tried EXCEPT !.errors = Append(tried.errors, HostError(h, cPARSE_FAILED))]
             ELSE [tried EXCEPT !.results = Append(tried.results, parsed)]

\* one iteration of "for host in target_hosts": try _execute_risu and
\* _parse_payload, except Exception: errors.append(f"{host}: {exc}")
RunStep(acc, h, outcome) ==
    LET tried == [acc EXCEPT !.attempts = Append(acc.attempts, h)]
        parsed == _parse_payload(h, outcome.payload)
    IN  IF outcome.kind = "raise"
        THEN [tried EXCEPT !.errors = Append(tried.errors, HostError(h, outcome.exc))]
        ELSE IF parsed.raised
        THEN [tried EXCEPT !.errors = Append(tried.errors, HostError(h, cPARSE_FAILED))]
        ELSE [tried EXCEPT !.results = Append(tried.results, parsed)]

\* for host in target_hosts; outcomes[i] is what _execute_risu does for the
\* i-th host still to be visited
RECURSIVE RunLoop(_, _, _)
RunLoop(acc, hosts, outcomes) ==
    IF hosts = <<>> THEN acc
    ELSE RunLoop(RunStep(acc, Head(hosts), Head(outcomes)), Tail(hosts), Tail(outcomes))

\* mutant: a run with results is completed, whatever its errors
RunStatusIgnoresErrors(results, errors) ==
    IF results # <<>> THEN "completed" ELSE "failed"

\* status = "completed" if results and not errors else ("partial" if results else "failed")
RunStatus(results, errors) ==
    IF results # <<>> /\ errors = <<>> THEN "completed"
    ELSE IF results # <<>> THEN "partial"
    ELSE "failed"

\* hosts in ("all", "*")
IsAllOrStar(hosts) == hosts = ALL \/ hosts = <<"*">>

\* the target_hosts of run(hosts) on the parsed summary
TargetHosts(hosts, summ) ==
    IF IsAllOrStar(hosts) THEN summ.hosts ELSE resolve_hosts(hosts, summ).hosts

\* run raises RuntimeError before any host is tried
RunRaises(hosts, summ) == ~IsAllOrStar(hosts) /\ ~validated(resolve_hosts(hosts, summ))

\* mutant: the warning of a partly matched selector is dropped
InitialErrorsNone(hosts, summ) == <<>>

\* the errors list before the loop: the warning of a partly matched selector
InitialErrors(hosts, summ) ==
    LET res == resolve_hosts(hosts, summ)
    IN  IF ~IsAllOrStar(hosts) /\ res.error # <<>> /\ StartsWithSomeSelectors(res.error)
        THEN <<WarningError(res.error)>>
        ELSE <<>>

\* DiagnosticsRunner.run(hosts) on the parsed summary, _execute_risu behaving
\* as outcomes tells; what it leaves in attempts and the report it returns
run(hosts, summ, outcomes) ==
    LET acc == RunLoop([EmptyRun EXCEPT !.errors = InitialErrors(hosts, summ)],
                       TargetHosts(hosts, summ), outcomes)
    IN  [attempts |-> acc.attempts,
         report |-> [raised |-> FALSE,
                     status |-> RunStatus(acc.results, acc.errors),
                     hosts  |-> acc.results,
                     errors |-> acc.errors]]

\* a report that was never returned: run raised
RaisedReport == [raised |-> TRUE, status |-> "none", hosts |-> <<>>, errors |-> <<>>]

\* payloads _execute_risu may return: one passing check; one failing check;
\* one entry that is no mapping
RunPayloads ==
    { [shape |-> "map", metadata |-> "absent",
       results |-> ResultsOf(<<Entry("map", <<>>, <<"d">>, "map", RcOf("int", 0), <<>>, <<>>)>>)],
      [shape |-> "map", metadata |-> "absent",
       results |-> ResultsOf(<<Entry("other", <<>>, <<>>, "absent", RcOf("absent", 0), <<>>, <<>>)>>)] }

ExecOutcomes ==
    {[kind |-> "payload", payload |-> p, exc |-> <<>>] : p \in RunPayloads}
    \cup {[kind |-> "raise", payload |-> EmptyPayload, exc |-> cEXEC_FAILED]}

\* DiagnosticsRunner.run(hosts, inventory=file)
Run(hosts) ==
    /\ pc = "start"
    /\ \E summ \in {parse_inventory(file)} :
          /\ summary' = summ
          /\ IF RunRaises(hosts, summ)
             THEN /\ target_hosts' = <<>>
                  /\ attempts' = <<>>
                  /\ report' = RaisedReport
             ELSE \E target \in {TargetHosts(hosts, summ)} :
                  \E outcomes \in [1..Len(target) -> ExecOutcomes] :
                  \E done \in {run(hosts, summ, outcomes)} :
                      /\ target_hosts' = target
                      /\ attempts' = done.attempts
                      /\ report' = done.report
    /\ run_hosts' = hosts
    /\ pc' = "ran"
    /\ UNCHANGED <<file, summaryPkg, resolved, resolvedPkg, host_arg, combined, payVars, extVars, diagVars, conVars>>

-----------------------------------------------------------------------------
(* Inputs of the run specification                                         *)

MaxRunLines == 3

RunLines == {<<"a">>, <<"b">>, <<"c">>, Header(<<"g">>)}

RunSelectors ==
    { ALL, <<"*">>, <<"b", ",", "a">>, <<"a", ",", "z">>, <<"z">>, <<"g">>, <<"!", "a">> }

InitRun == InvInit(FilesOf(RunLines, MaxRunLines)) /\ PayIdle /\ RunIdle /\ ExtIdle /\ DiagIdle /\ ConIdle

RunSome == \E hosts \in RunSelectors : Run(hosts)

NextRun == RunSome

SpecRun == InitRun /\ [][NextRun]_vars

-----------------------------------------------------------------------------
(* Properties of DiagnosticsRunner.run                                     *)

\* run returned a report
Returned == pc = "ran" /\ ~report.raised

\* C11: the report of DiagnosticsRunner.run has status completed exactly when
\* results is non-empty and errors is empty, partial exactly when both are
\* non-empty, and failed exactly when results is empty.
C11_StatusOfRun ==
    Returned =>
        /\ report.status \in {"completed", "partial", "failed"}
        /\ report.status = "completed" <=> (report.hosts # <<>> /\ report.errors = <<>>)
        /\ report.status = "partial" <=> (report.hosts # <<>> /\ report.errors # <<>>)
        /\ report.status = "failed" <=> report.hosts = <<>>

\* C11 witness: a partial report, one host with a result and one with an error.
C11_Witness ==
    /\ Returned
    /\ report.status = "partial"
    /\ Len(report.hosts) = 1
    /\ Len(report.errors) = 1

\* code points of the characters of host names, ascending
CODEPOINTS ==
    <<"-", ".", "0", "1", "2", "3", "4", "5", "6", "7", "8", "9",
      "a", "b", "c", "d", "e", "f", "g", "h", "i", "j", "k", "l", "m",
      "n", "o", "p", "q", "r", "s", "t", "u", "v", "w", "x", "y", "z">>

Ord(c) == CHOOSE i \in DOMAIN CODEPOINTS : CODEPOINTS[i] = c

\* s < t for Python str
RECURSIVE StrLess(_, _)
StrLess(s, t) ==
    IF t = <<>> THEN FALSE
    ELSE IF s = <<>> THEN TRUE
    ELSE IF Head(s) = Head(t) THEN StrLess(Tail(s), Tail(t))
    ELSE Ord(Head(s)) < Ord(Head(t))

\* results in ascending host-name order
AscendingHosts(results) ==
    \A i, j \in DOMAIN results : i < j => ~StrLess(results[j].host, results[i].host)

\* C12: the per-host results of a report are in ascending host-name order,
\* whatever the order in which the hosts were targeted.
C12_ResultsSortedByHost == Returned => AscendingHosts(report.hosts)

\* C13: a report whose results list is empty has status failed and a non-empty
\* errors list, for every inventory (one with no hosts included) and every
\* selector that does not raise.
C13_EmptyResultsExplained ==
    (Returned /\ report.hosts = <<>>) => (report.status = "failed" /\ report.errors # <<>>)

\* the errors of a report that open with "<h>: "
ErrorsOf(h) == SelectSeq(report.errors, LAMBDA e : e[1] = Seg("", "", <<h>>, ": "))

\* the results of a report for host h
ResultsFor(h) == SelectSeq(report.hosts, LAMBDA r : r.host = h)

\* the hosts of the results, in report order
ResultHosts == [i \in DOMAIN report.hosts |-> report.hosts[i].host]

\* C14: every targeted host is attempted exactly once, in target order, and
\* gives exactly one result or exactly one error prefixed with its name; one
\* host's failure neither stops a later host from being attempted nor removes
\* an earlier host's result.
C14_EveryHostAttemptedOnce ==
    Returned =>
        /\ attempts = target_hosts
        /\ NoDup(attempts)
        /\ \A i \in DOMAIN target_hosts :
              Len(ResultsFor(target_hosts[i])) + Len(ErrorsOf(target_hosts[i])) = 1
        /\ ResultHosts = SelectSeq(target_hosts, LAMBDA h : Len(ResultsFor(h)) = 1)
        /\ Len(report.hosts) + Len(report.errors)
              = Len(target_hosts) + Len(InitialErrors(run_hosts, summary))

\* C14 witness: three hosts, the second fails, the first and third have results.
C14_Witness ==
    /\ Returned
    /\ Len(target_hosts) = 3
    /\ attempts = target_hosts
    /\ ResultHosts = <<target_hosts[1], target_hosts[3]>>
    /\ Len(ErrorsOf(target_hosts[2])) = 1

-----------------------------------------------------------------------------
(* json.loads on text: a recursive-descent reading of the JSON grammar     *)
(*                                                                         *)
(* A JSON value is [t, s, m]: t is "obj" (m: its members, a dict of        *)
(* <<key, value>> pairs), "str" (s: its characters), "num" (s: its digits) *)
(* or "lit" (s: true, false or null). The grammar read here has objects,   *)
(* strings with the escapes \" \\ \/ \n, unsigned integers, the three      *)
(* literals and whitespace; arrays, fractions, signs and the other escapes *)
(* are outside it and no input text uses them.                             *)

JV(t, s, m) == [t |-> t, s |-> s, m |-> m]

JNone == JV("none", <<>>, <<>>)

\* what a parsing step gives: the value and the index after it, or a failure
Parsed(v, next) == [ok |-> TRUE, v |-> v, next |-> next]

ParseFail == [ok |-> FALSE, v |-> JNone, next |-> 0]

IsJsonWs(c) == c \in {" ", "\t", "\n", "\r"}

JSON_DIGITS == {"0", "1", "2", "3", "4", "5", "6", "7", "8", "9"}

\* the index of the first character at or after i that is no whitespace
RECURSIVE SkipWs(_, _)
SkipWs(s, i) == IF i <= Len(s) /\ IsJsonWs(s[i]) THEN SkipWs(s, i + 1) ELSE i

\* the character at i, <<>>-safe: "" when i is past the end
At(s, i) == IF 1 <= i /\ i <= Len(s) THEN s[i] ELSE ""

\* the rest of a string whose opening quote is before i
RECURSIVE ScanString(_, _, _)
ScanString(s, i, acc) ==
    IF i > Len(s) THEN ParseFail
    ELSE IF s[i] = "\"" THEN Parsed(JV("str", acc, <<>>), i + 1)
    ELSE IF s[i] = "\\"
    THEN IF At(s, i + 1) \in {"\"", "\\", "/"} THEN ScanString(s, i + 2, Append(acc, s[i + 1]))
         ELSE IF At(s, i + 1) = "n" THEN ScanString(s, i + 2, Append(acc, "\n"))
         ELSE ParseFail
    ELSE IF s[i] \in {"\n", "\t", "\r"} THEN ParseFail
    ELSE ScanString(s, i + 1, Append(acc, s[i]))

\* the index after the digits that start at i
RECURSIVE SkipDigits(_, _)
SkipDigits(s, i) == IF At(s, i) \in JSON_DIGITS THEN SkipDigits(s, i + 1) ELSE i

\* an unsigned integer at i: 0, or digits that do not open with 0
ScanNumber(s, i) ==
    IF s[i] = "0" THEN Parsed(JV("num", <<"0">>, <<>>), i + 1)
    ELSE Parsed(JV("num", SubSeq(s, i, SkipDigits(s, i) - 1), <<>>), SkipDigits(s, i))

JSON_LITERALS == {<<"t", "r", "u", "e">>, <<"f", "a", "l", "s", "e">>, <<"n", "u", "l", "l">>}

RECURSIVE ScanValue(_, _)
RECURSIVE ScanMembers(_, _, _)

\* the members of an object from the key whose opening quote is at i
ScanMembers(s, i, acc) ==
    IF At(s, i) # "\"" THEN ParseFail
    ELSE LET key == ScanString(s, i + 1, <<>>)
             colon == SkipWs(s, key.next)
             val == ScanValue(s, SkipWs(s, colon + 1))
             after == SkipWs(s, val.next)
         IN  IF ~key.ok \/ At(s, colon) # ":" THEN ParseFail
             ELSE IF ~val.ok THEN ParseFail
             ELSE IF At(s, after) = "}" THEN Parsed(JV("obj", <<>>, DPut(acc, key.v.s, val.v)), after + 1)
             ELSE IF At(s, after) = "," THEN ScanMembers(s, SkipWs(s, after + 1), DPut(acc, key.v.s, val.v))
             ELSE ParseFail

\* the value that starts at i
ScanValue(s, i) ==
    IF i > Len(s) THEN ParseFail
    ELSE IF s[i] = "\"" THEN ScanString(s, i + 1, <<>>)
    ELSE IF s[i] = "{"
    THEN IF At(s, SkipWs(s, i + 1)) = "}" THEN Parsed(JV("obj", <<>>, <<>>), SkipWs(s, i + 1) + 1)
         ELSE ScanMembers(s, SkipWs(s, i + 1), <<>>)
    ELSE IF s[i] \in JSON_DIGITS THEN ScanNumber(s, i)
    ELSE IF \E l \in JSON_LITERALS : StartsWith(From(s, i), l)
    THEN LET l == CHOOSE x \in JSON_LITERALS : StartsWith(From(s, i), x)
         IN  Parsed(JV("lit", l, <<>>), i + Len(l))
    ELSE ParseFail

\* json.loads(text): ok = FALSE stands for json.JSONDecodeError
json_loads(text) ==
    LET r == ScanValue(text, SkipWs(text, 1))
    IN  IF r.ok /\ SkipWs(text, r.next) = Len(text) + 1 THEN r ELSE ParseFail

\* bool(value) is False: {}, "", 0, false, null
Falsy(v) ==
    \/ v.t = "none"
    \/ (v.t = "obj" /\ v.m = <<>>)
    \/ (v.t = "str" /\ v.s = <<>>)
    \/ (v.t = "num" /\ v.s = <<"0">>)
    \/ (v.t = "lit" /\ v.s # <<"t", "r", "u", "e">>)

-----------------------------------------------------------------------------
(* Payload extraction: _extract_payload of src/risu_insights/diagnostics.py *)
(* and the slurp output formats of src/runner.py _run_remote_risu          *)
(*                                                                         *)
(* A strategy gives [kind, v]: "found" with the parsed value, "not_found", *)
(* or "raise" when an exception leaves it.                                 *)

Found(v) == [kind |-> "found", v |-> v]

NotFound == [kind |-> "not_found", v |-> JNone]

Raise == [kind |-> "raise", v |-> JNone]

\* mutant: json.JSONDecodeError is not caught
TryLoadsUncaught(text) == IF json_loads(text).ok THEN Found(json_loads(text).v) ELSE Raise

\* try: json.loads(text) / except json.JSONDecodeError: not found
TryLoads(text) == IF json_loads(text).ok THEN Found(json_loads(text).v) ELSE NotFound

\* s.find(sub, i) with indices from 1: the first index at or after i where sub
\* starts, 0 when there is none
FindFrom(s, sub, i) ==
    LET at == {j \in i..(Len(s) - Len(sub) + 1) : SubSeq(s, j, j + Len(sub) - 1) = sub}
    IN  IF at = {} THEN 0 ELSE CHOOSE j \in at : \A k \in at : j <= k

SENTINEL_START ==
    <<"R", "I", "S", "U", "_", "R", "E", "S", "U", "L", "T", "S", "_", "J", "S", "O", "N", "_",
    "S", "T", "A", "R", "T", ":">>

SENTINEL_END ==
    <<":", "R", "I", "S", "U", "_", "R", "E", "S", "U", "L", "T", "S", "_", "J", "S", "O", "N",
    "_", "E", "N", "D">>

\* _extract_payload(candidate); SENTINEL_REGEX.search matches from the first
\* start marker to the first end marker after it
_extract_payload(candidate) ==
    IF FindFrom(candidate, SENTINEL_START, 1) = 0 \/ FindFrom(candidate, SENTINEL_END, 1) = 0
    THEN NotFound
    ELSE LET start == FindFrom(candidate, SENTINEL_START, 1) + Len(SENTINEL_START)
             end   == FindFrom(candidate, SENTINEL_END, start)
         IN  IF end = 0 THEN NotFound
             ELSE TryLoads(SubSeq(candidate, start, end - 1))

cARROW == <<"=", ">">>

cSTDOUT_QUOTE ==
    <<"s", "t", "d", "o", "u", "t", "=", "'">>

cOPEN_QUOTE == <<"{", "\"">>

\* the loop "for i in range(json_start, len(raw))" that counts braces: the
\* index of the "}" that brings brace_count to 0, 0 when none does
RECURSIVE BraceScan(_, _, _)
BraceScan(raw, i, brace_count) ==
    IF i > Len(raw) THEN 0
    ELSE IF raw[i] = "{" THEN BraceScan(raw, i + 1, brace_count + 1)
    ELSE IF raw[i] = "}"
    THEN IF brace_count - 1 = 0 THEN i ELSE BraceScan(raw, i + 1, brace_count - 1)
    ELSE BraceScan(raw, i + 1, brace_count)

\* the text a format hands to json.loads, when it gets that far
Span(text) == [some |-> TRUE, text |-> text]

NoSpan == [some |-> FALSE, text |-> <<>>]

\* try: json.loads(span) / except json.JSONDecodeError: pass
LoadSpan(span) == IF span.some THEN TryLoads(span.text) ELSE NotFound

\* raw[json_start:json_end], when json_end > json_start
BraceSpan(raw, json_start) ==
    IF BraceScan(raw, json_start, 0) = 0 THEN NoSpan
    ELSE Span(SubSeq(raw, json_start, BraceScan(raw, json_start, 0)))

\* Format 1: direct JSON object
DirectSpan(raw) == IF StartsWith(raw, <<"{">>) THEN Span(raw) ELSE NoSpan

DirectParse(raw) == LoadSpan(DirectSpan(raw))

\* Format 2: "hostname | SUCCESS => { ... }"
ArrowSpan(raw) ==
    IF FindFrom(raw, cARROW, 1) = 0 THEN NoSpan
    ELSE IF FindFrom(raw, <<"{">>, FindFrom(raw, cARROW, 1)) = 0 THEN NoSpan
    ELSE BraceSpan(raw, FindFrom(raw, <<"{">>, FindFrom(raw, cARROW, 1)))

ArrowScan(raw) == LoadSpan(ArrowSpan(raw))

\* the index of the closing quote: the first ' at or after i that is at start
\* or does not follow a backslash; Len(raw) + 1 when there is none
RECURSIVE QuoteEnd(_, _, _)
QuoteEnd(raw, start, end) ==
    IF end > Len(raw) THEN end
    ELSE IF raw[end] = "'" /\ (end = start \/ raw[end - 1] # "\\") THEN end
    ELSE QuoteEnd(raw, start, end + 1)

\* .replace("\\n", "\n").replace("\\'", "'").replace("\\\\", "\\")
Unescape(text) ==
    Replace(Replace(Replace(text, <<"\\", "n">>, <<"\n">>), <<"\\", "'">>, <<"'">>),
            <<"\\", "\\">>, <<"\\">>)

\* Format 3: stdout='...'
QuotedSpan(raw) ==
    IF FindFrom(raw, cSTDOUT_QUOTE, 1) = 0 THEN NoSpan
    ELSE LET start == FindFrom(raw, cSTDOUT_QUOTE, 1) + Len(cSTDOUT_QUOTE)
             end   == QuoteEnd(raw, start, start)
         IN  IF end > start THEN Span(Unescape(SubSeq(raw, start, end - 1))) ELSE NoSpan

QuotedField(raw) == LoadSpan(QuotedSpan(raw))

\* Format 4: the first {" anywhere in the output
BracketSpan(raw) ==
    IF FindFrom(raw, cOPEN_QUOTE, 1) = 0 THEN NoSpan
    ELSE BraceSpan(raw, FindFrom(raw, cOPEN_QUOTE, 1))

BracketScan(raw) == LoadSpan(BracketSpan(raw))

\* "if not slurp_output": nothing found so far, or a value that is falsy
NotSlurp(res) == res.kind # "found" \/ Falsy(res.v)

\* slurp_output after one more format: the format is tried only when
\* "not slurp_output", and assigns only when json.loads succeeded
AfterFormat(current, res) ==
    IF current.kind = "raise" THEN current
    ELSE IF ~NotSlurp(current) THEN current
    ELSE IF res.kind = "not_found" THEN current
    ELSE res

\* slurp_output after the four formats (src/runner.py lines 207-280)
slurp_output(raw) ==
    AfterFormat(AfterFormat(AfterFormat(DirectParse(raw), ArrowScan(raw)), QuotedField(raw)),
                BracketScan(raw))

\* the formats that called json.loads, in order, on the way to slurp_output
FormatsTried(raw) ==
    LET s1 == DirectParse(raw)
        s2 == AfterFormat(s1, ArrowScan(raw))
        s3 == AfterFormat(s2, QuotedField(raw))
    IN  (IF DirectSpan(raw).some THEN <<"direct">> ELSE <<>>)
        \o (IF NotSlurp(s1) /\ s1.kind # "raise" /\ ArrowSpan(raw).some THEN <<"arrow">> ELSE <<>>)
        \o (IF NotSlurp(s2) /\ s2.kind # "raise" /\ QuotedSpan(raw).some THEN <<"quoted">> ELSE <<>>)
        \o (IF NotSlurp(s3) /\ s3.kind # "raise" /\ BracketSpan(raw).some THEN <<"bracket">> ELSE <<>>)

\* what extraction leaves for one blob
Extraction(text) ==
    [done     |-> TRUE,
     sentinel |-> _extract_payload(text),
     direct   |-> DirectParse(Strip(text)),
     arrow    |-> ArrowScan(Strip(text)),
     quoted   |-> QuotedField(Strip(text)),
     bracket  |-> BracketScan(Strip(text)),
     slurp    |-> slurp_output(Strip(text)),
     tried    |-> FormatsTried(Strip(text))]

-----------------------------------------------------------------------------
(* Extraction as a step, and the inputs of the extraction specification    *)

\* the payload extraction run on one blob: _extract_payload(blob) and the
\* slurp output formats on blob.strip()
Extract ==
    /\ ~ext.done
    /\ ext' = Extraction(blob)
    /\ UNCHANGED <<blob, invVars, payVars, runVars, diagVars, conVars>>

\* the text {"results":{}}
J_RESULTS ==
    <<"{", "\"", "r", "e", "s", "u", "l", "t", "s", "\"", ":", "{", "}", "}">>

\* the text {}
J_EMPTY ==
    <<"{", "}">>

\* the text {"a":"1"}
J_ONE ==
    <<"{", "\"", "a", "\"", ":", "\"", "1", "\"", "}">>

\* the text {"a":"}"}
J_CLOSE ==
    <<"{", "\"", "a", "\"", ":", "\"", "}", "\"", "}">>

\* the text {"a":"{"}
J_OPEN ==
    <<"{", "\"", "a", "\"", ":", "\"", "{", "\"", "}">>

\* the text { "a": 1 }
J_SPACED ==
    <<"{", " ", "\"", "a", "\"", ":", " ", "1", " ", "}">>

\* the text {"c":{"d":"x"}}
J_NESTED ==
    <<"{", "\"", "c", "\"", ":", "{", "\"", "d", "\"", ":", "\"", "x", "\"", "}", "}">>

\* texts of JSON objects
JsonObjects == {J_RESULTS, J_EMPTY, J_ONE, J_CLOSE, J_OPEN, J_SPACED, J_NESTED}

\* the text {bad}
T_BAD ==
    <<"{", "b", "a", "d", "}">>

\* the text {"a":
T_CUT ==
    <<"{", "\"", "a", "\"", ":">>

\* the text 5
T_FIVE ==
    <<"5">>

\* texts that are no JSON object: malformed, cut short, a number
OtherTexts == {T_BAD, T_CUT, T_FIVE}

Bodies == JsonObjects \cup OtherTexts

\* the text {"a":"b\'c"}: a quote escaped for the quoted field
T_ESCAPED_QUOTE ==
    <<"{", "\"", "a", "\"", ":", "\"", "b", "\\", "'", "c", "\"", "}">>

\* the text {"a":"x\ny"}: the two characters \ and n inside a string
T_ESCAPED_NEWLINE ==
    <<"{", "\"", "a", "\"", ":", "\"", "x", "\\", "n", "y", "\"", "}">>

\* texts with escapes, as they stand inside stdout='...'
EscapedTexts == {T_ESCAPED_QUOTE, T_ESCAPED_NEWLINE}

cSUCCESS ==
    <<"h", " ", "|", " ", "S", "U", "C", "C", "E", "S", "S", " ">>

cCHANGED ==
    <<"h", " ", "|", " ", "r", "c", "=", "0", " ">>

cMSG ==
    <<"m", "s", "g", " ">>

ArrowPrefixes == {cSUCCESS, <<"x">>}

ArrowSuffixes == {<<>>, <<"\n">>, <<" ">> \o J_ONE}

\* prefix + "=>" + text + suffix
ArrowBlob(prefix, text, suffix) == prefix \o cARROW \o text \o suffix

\* start marker + text + end marker
SentinelBlob(text) == SENTINEL_START \o text \o SENTINEL_END

Blobs ==
    {ArrowBlob(p, t, s) : p \in ArrowPrefixes, t \in Bodies, s \in ArrowSuffixes}
    \cup {p \o SentinelBlob(t) \o s : p \in {<<>>, cMSG}, t \in Bodies, s \in {<<>>, <<"\n">>}}
    \cup {t \o s : t \in Bodies, s \in {<<>>, <<"\n">>}}
    \cup {cCHANGED \o cSTDOUT_QUOTE \o t \o <<"'">> : t \in Bodies \cup EscapedTexts}
    \cup {<<"x", " ">> \o t \o <<" ", "y">> : t \in Bodies}

InitExtract ==
    /\ InvInit({<<>>})
    /\ PayIdle
    /\ RunIdle
    /\ DiagIdle
    /\ ConIdle
    /\ blob \in Blobs
    /\ ext = [done |-> FALSE]

NextExtract == Extract

SpecExtract == InitExtract /\ [][NextExtract]_vars

-----------------------------------------------------------------------------
(* Properties of payload extraction                                        *)

\* the value json.loads gives the text of a JSON object
ObjectOf(text) == json_loads(text).v

\* C16: for every JSON object J, _extract_payload returns J for the blob
\* start marker + J + end marker, and returns the same J for the bare text
\* of J.
C16_SentinelAndBare ==
    ext.done =>
        \A j \in JsonObjects :
            /\ blob = SentinelBlob(j) => ext.sentinel = Found(ObjectOf(j))
            /\ blob = j => ext.sentinel = Found(ObjectOf(j))

\* the results of the formats of the slurp output, in their fixed order
InOrder == <<ext.direct, ext.arrow, ext.quoted, ext.bracket>>

FormatNames == <<"direct", "arrow", "quoted", "bracket">>

\* the first format of the order that found a value (0: none did)
FirstFound ==
    IF \E k \in DOMAIN InOrder : InOrder[k].kind = "found"
    THEN CHOOSE k \in DOMAIN InOrder :
            InOrder[k].kind = "found" /\ \A i \in 1..(k - 1) : InOrder[i].kind # "found"
    ELSE 0

\* C17: the payload used is the one of the earliest strategy of the fixed
\* order that gave a non-null result, an empty object included; no later
\* strategy is attempted once one has.
C17_EarliestStrategyWins ==
    (ext.done /\ FirstFound # 0) =>
        /\ ext.slurp = InOrder[FirstFound]
        /\ \A k \in (FirstFound + 1)..Len(FormatNames) : FormatNames[k] \notin Range(ext.tried)

\* every strategy ended without an exception
NoStrategyRaised ==
    /\ ext.sentinel.kind # "raise"
    /\ \A k \in DOMAIN InOrder : InOrder[k].kind # "raise"
    /\ ext.slurp.kind # "raise"

\* after the misses of the formats before k, format k is still the one used
FallsThrough ==
    \A k \in DOMAIN InOrder :
        (/\ \A i \in 1..(k - 1) : InOrder[i].kind = "not_found"
         /\ InOrder[k].kind = "found"
         /\ ~Falsy(InOrder[k].v))
        => ext.slurp = InOrder[k]

C19_ArrowSpanIsObject ==
    ext.done =>
        \A p \in ArrowPrefixes, j \in JsonObjects, s \in ArrowSuffixes :
            blob = ArrowBlob(p, j, s) =>
                /\ ArrowSpan(Strip(blob)) = Span(j)
                /\ ext.arrow = Found(ObjectOf(j))

-----------------------------------------------------------------------------
(* Order of the synthesized all group: files whose sections come back      *)

MaxOrderSections == 3

OrderBlocks ==
    { <<Header(<<"g">>), <<"a">>>>,
      <<Header(<<"w">>), <<"b">>>>,
      <<Header(<<"g">>), <<"c">>>>,
      <<Header(<<"w">>), <<"a">>>>,
      <<Header(<<"g">> \o CHILDREN_SUFFIX), <<"w">>>>,
      <<Header(<<"w">>), <<"c">>, <<"c">>>> }

OrderFiles == {Flatten(blocks) : blocks \in FilesOf(OrderBlocks, MaxOrderSections)}

InitOrder == InvInit(OrderFiles) /\ PayIdle /\ RunIdle /\ ExtIdle /\ DiagIdle /\ ConIdle

NextOrder == Summarise

SpecOrder == InitOrder /\ [][NextOrder]_vars

\* the file declares a group named all: by a header, or by an [all:children] header
DeclaresAll(lines) ==
    \/ DHas(ParseLoop(EmptyLoop, lines).groups, ALL)
    \/ DHas(ParseLoop(EmptyLoop, lines).children, ALL)

\* the hosts met walking the groups other than all in the order of the groups
\* dict, each group's members in order, every host at its first appearance
GroupWalk(summ) ==
    LET others == SelectSeq(summ.groups, LAMBDA kv : kv[1] # ALL)
    IN  _dedupe(Flatten([i \in DOMAIN others |-> others[i][2]]))

\* C21: when the file declares no group named all, groups["all"] and hosts
\* list each host once, in the order of first appearance walking the groups in
\* declaration order and each group's members in order, also when a section
\* header occurs more than once.
C21_AllInGroupWalkOrder ==
    (pc = "parsed" /\ ~DeclaresAll(file)) =>
        /\ NoDup(summary.hosts)
        /\ DGet(summary.groups, ALL, <<>>) = GroupWalk(summary)
        /\ summary.hosts = GroupWalk(summary)
        /\ DGet(summaryPkg.groups, ALL, <<>>) = GroupWalk(summaryPkg)
        /\ summaryPkg.hosts = GroupWalk(summaryPkg)

\* C22: after parsing any inventory, every group's member list holds each host
\* at most once, also when a host line occurs twice under one header, and the
\* key all is present in groups.
C22_GroupsAreOrderedSets ==
    pc # "start" =>
        /\ DHas(summary.groups, ALL)
        /\ \A i \in DOMAIN summary.groups : NoDup(summary.groups[i][2])
        /\ DHas(summaryPkg.groups, ALL)
        /\ \A i \in DOMAIN summaryPkg.groups : NoDup(summaryPkg.groups[i][2])

-----------------------------------------------------------------------------
(* Selecting a host by its exact name: host names with separator characters *)

MaxNameLines == 3

NameLines ==
    { <<"a">>, <<"b">>, <<"g">>, Header(<<"g">>),
      <<"a", ":", "b">>, <<"a", ",", "b">>, <<"!", "a">> }

\* the host names a file of NameLines can hold
NameSelectors == {<<"a">>, <<"b">>, <<"g">>, <<"a", ":", "b">>, <<"a", ",", "b">>, <<"!", "a">>}

InitNames == InvInit(FilesOf(NameLines, MaxNameLines)) /\ PayIdle /\ RunIdle /\ ExtIdle /\ DiagIdle /\ ConIdle

ResolveName == \E selector \in NameSelectors : Resolve(selector)

NextNames == ResolveName

SpecNames == InitNames /\ [][NextNames]_vars

\* C25: for every parsed inventory and every host h of its hosts,
\* resolve_hosts(h).hosts is exactly [h], whatever characters the name holds
\* (':' or ',' or a leading '!') and also when a group has the same name.
C25_HostSelectsItself ==
    (pc = "resolved" /\ resolved.selector \in Range(summary.hosts))
        => resolved.hosts = <<resolved.selector>>

-----------------------------------------------------------------------------
(* The warning of a partly matched selector in DiagnosticsRunner.run       *)

\* C29: when an inclusion token of the selector matched nothing and hosts are
\* left, the report's errors list opens with the "Warning: ..." entry, ahead of
\* every host's error, and a run in which every targeted host gave a result has
\* status partial, not completed.
C29_WarningMakesPartial ==
    (Returned /\ ~IsAllOrStar(run_hosts) /\ UnmatchedTokens(run_hosts, summary) # <<>>) =>
        /\ report.errors # <<>>
        /\ report.errors[1] = WarningError(WarningMessage(UnmatchedTokens(run_hosts, summary)))
        /\ Len(report.hosts) = Len(target_hosts) =>
              (report.status = "partial" /\ Len(report.errors) = 1)

\* C29 witness: "a,z" on an inventory that holds a: the one targeted host
\* succeeds, z matched nothing, and the report is partial with the warning as
\* its only error.
C29_Witness ==
    /\ Returned
    /\ run_hosts = <<"a", ",", "z">>
    /\ target_hosts = <<<<"a">>>>
    /\ ResultHosts = <<<<"a">>>>
    /\ report.status = "partial"
    /\ report.errors = <<WarningError(WarningMessage(<<<<"z">>>>))>>

-----------------------------------------------------------------------------
(* Classification of the entries of a payload                              *)

\* the return code the loop reads from an entry: result.get("rc") of
\* plugin_data.get("result", {}) or {}
EntryRc(plugin_data) ==
    IF plugin_data.result.shape = "map" THEN RcGet(plugin_data.result) ELSE RcOf("null", 0)

\* the entries of a results dict that are no pass, in iteration order
NotPassed(items) == SelectSeq(items, LAMBDA kv : ~RcIsPass(EntryRc(kv[2])))

\* r classifies every entry of items: each is a pass or a failure, none is
\* skipped, and the issues are the failures in iteration order
Classified(r, items) ==
    /\ ~r.raised
    /\ r.total_checks = Len(items)
    /\ r.passed + r.failed = r.total_checks
    /\ r.skipped = 0
    /\ Len(r.issues) = r.failed
    /\ Len(r.issues) = Len(NotPassed(items))
    /\ \A i \in DOMAIN r.issues :
          /\ r.issues[i].plugin = Or(NotPassed(items)[i][2].plugin, NotPassed(items)[i][1])
          /\ r.issues[i].rc = EntryRc(NotPassed(items)[i][2]).v

\* C30: for every payload whose results entries are all mappings, normalization
\* classifies each entry as exactly one of passed or failed: passed + failed =
\* total_checks, skipped = 0, and the issues are the failed entries in the
\* iteration order of the results map.
C30_EveryEntryClassified ==
    (/\ normalised = "yes"
     /\ payloadIn.shape # "null"
     /\ payloadIn.metadata # "null"
     /\ \A i \in DOMAIN payloadIn.results : payloadIn.results[i][2].shape = "map")
    => /\ Classified(normResult, payloadIn.results)
       /\ Classified(normRunner, payloadIn.results)

-----------------------------------------------------------------------------
(* Concurrent DiagnosticsRunner.run calls in one process                   *)
(*                                                                         *)
(* The run_diagnostics tool of src/mcp_app.py hands each request to a      *)
(* worker thread (anyio.to_thread.run_sync), so several _run_remote_risu   *)
(* calls can be in progress at once. All of them build the same path from  *)
(* os.getpid(). A call is [host, pc, wrote, got]: pc is "start" (before    *)
(* subprocess.run), "ran" (RISU returned), "read" (the file was opened, or *)
(* found missing), "done"; wrote tells whether its RISU wrote the file;    *)
(* got is the call whose output it read (0: FileNotFoundError).            *)

MaxCalls == 2

cLOCALHOST == <<"l", "o", "c", "a", "l", "h", "o", "s", "t">>

cLOOPBACK == <<"1", "2", "7", ".", "0", ".", "0", ".", "1">>

\* is_localhost = host in {"127.0.0.1", "localhost"}
is_localhost(h) == h \in {cLOOPBACK, cLOCALHOST}

CallHosts == {cLOCALHOST, cLOOPBACK, <<"a">>}

\* a request arrives: runner.run is dispatched to a worker thread
StartCall(h) ==
    /\ Len(calls) < MaxCalls
    /\ calls' = Append(calls, [host |-> h, pc |-> "start", wrote |-> FALSE, got |-> 0])
    /\ UNCHANGED <<tmp_file, invVars, payVars, runVars, extVars, diagVars>>

\* subprocess.run(risu ... --output remote_json_path): RISU writes the file,
\* or fails and writes nothing
RisuRuns(c, ok) ==
    /\ calls[c].pc = "start"
    /\ is_localhost(calls[c].host)
    /\ tmp_file' = IF ok THEN c ELSE tmp_file
    /\ calls' = [calls EXCEPT ![c].pc = "ran", ![c].wrote = ok]
    /\ UNCHANGED <<invVars, payVars, runVars, extVars, diagVars>>

\* with open(remote_json_path) as f: json_str = f.read(), or FileNotFoundError
ReadOutput(c) ==
    /\ calls[c].pc = "ran"
    /\ calls' = [calls EXCEPT ![c].pc = "read", ![c].got = tmp_file]
    /\ UNCHANGED <<tmp_file, invVars, payVars, runVars, extVars, diagVars>>

\* finally: os.remove(remote_json_path), a missing file ignored
RemoveOutput(c) ==
    /\ calls[c].pc = "read"
    /\ tmp_file' = 0
    /\ calls' = [calls EXCEPT ![c].pc = "done"]
    /\ UNCHANGED <<invVars, payVars, runVars, extVars, diagVars>>

\* a host that is not localhost: RISU runs through Ansible and writes its
\* output on the remote host
RemoteRun(c) ==
    /\ calls[c].pc = "start"
    /\ ~is_localhost(calls[c].host)
    /\ calls' = [calls EXCEPT ![c].pc = "done"]
    /\ UNCHANGED <<tmp_file, invVars, payVars, runVars, extVars, diagVars>>

InitLocal == InvInit({<<>>}) /\ PayIdle /\ RunIdle /\ ExtIdle /\ DiagIdle /\ ConIdle

StartSome == \E h \in CallHosts : StartCall(h)

RisuSome == \E c \in DOMAIN calls, ok \in BOOLEAN : RisuRuns(c, ok)

ReadSome == \E c \in DOMAIN calls : ReadOutput(c)

RemoveSome == \E c \in DOMAIN calls : RemoveOutput(c)

RemoteSome == \E c \in DOMAIN calls : RemoteRun(c)

NextLocal == StartSome \/ RisuSome \/ ReadSome \/ RemoveSome \/ RemoteSome

SpecLocal == InitLocal /\ [][NextLocal]_vars

\* C28: when DiagnosticsRunner.run calls run concurrently in one process and
\* target localhost, each call whose RISU wrote its output reads exactly that
\* output: in no interleaving does it read another call's output or find its
\* own output file already removed.
C28_EachCallReadsItsOwnOutput ==
    \A c \in DOMAIN calls :
        (calls[c].pc \in {"read", "done"} /\ calls[c].wrote) => calls[c].got = c

-----------------------------------------------------------------------------
(* run_diagnostics, src/risu_insights/diagnostics.py: the payload as the   *)
(* normaliser reads it                                                     *)
(*                                                                         *)
(* parse_risu_payload receives the value json.loads built. ToPayload reads *)
(* from that value what the normaliser reads: the results map, for each    *)
(* entry its plugin, id, name, description and result, and from the result *)
(* rc, err and out. The text fields of the inputs are strings or absent.   *)

UNKNOWN == <<"u", "n", "k", "n", "o", "w", "n">>

cRESULTS == <<"r", "e", "s", "u", "l", "t", "s">>

cRESULT == <<"r", "e", "s", "u", "l", "t">>

cMETADATA == <<"m", "e", "t", "a", "d", "a", "t", "a">>

\* d.get(key) on a JSON object: JNone when the key is absent
JGet(v, key) == DGet(v.m, key, JNone)

\* the text of d.get(key) when it is a string, "" otherwise
JText(v, key) == IF JGet(v, key).t = "str" THEN JGet(v, key).s ELSE <<>>

\* int(digits)
RECURSIVE DigitsValue(_, _)
DigitsValue(digits, acc) ==
    IF digits = <<>> THEN acc
    ELSE DigitsValue(Tail(digits),
                     10 * acc + (CHOOSE n \in 0..9 : <<"0", "1", "2", "3", "4", "5", "6", "7", "8", "9">>[n + 1] = Head(digits)))

\* result.get("rc") as the normaliser sees it; true and false are the ints 1 and 0
RcOfJson(v) ==
    IF v.t = "none" THEN RcOf("absent", 0)
    ELSE IF v.t = "num" THEN RcOf("int", DigitsValue(v.s, 0))
    ELSE IF v.t = "lit" /\ v.s = <<"n", "u", "l", "l">> THEN RcOf("null", 0)
    ELSE IF v.t = "lit" THEN RcOf("int", IF v.s = <<"t", "r", "u", "e">> THEN 1 ELSE 0)
    ELSE RcOf("str", 0)

\* plugin_data.get("result", {}) or {}
ResultOfJson(v) ==
    IF v.t = "none" THEN [shape |-> "absent", rc |-> RcOf("absent", 0), err |-> <<>>, out |-> <<>>]
    ELSE IF Falsy(v) THEN [shape |-> "null", rc |-> RcOf("absent", 0), err |-> <<>>, out |-> <<>>]
    ELSE IF v.t # "obj" THEN [shape |-> "other", rc |-> RcOf("absent", 0), err |-> <<>>, out |-> <<>>]
    ELSE [shape |-> "map", rc |-> RcOfJson(JGet(v, <<"r", "c">>)),
          err |-> JText(v, <<"e", "r", "r">>), out |-> JText(v, <<"o", "u", "t">>)]

\* one value of results.items() as plugin_data
EntryOfJson(v) ==
    IF v.t # "obj"
    THEN [shape |-> "other", plugin |-> <<>>, id |-> <<>>, name |-> <<>>, description |-> <<>>,
          result |-> ResultOfJson(JNone)]
    ELSE [shape |-> "map",
          plugin |-> JText(v, <<"p", "l", "u", "g", "i", "n">>),
          id |-> JText(v, <<"i", "d">>),
          name |-> JText(v, <<"n", "a", "m", "e">>),
          description |-> JText(v, <<"d", "e", "s", "c", "r", "i", "p", "t", "i", "o", "n">>),
          result |-> ResultOfJson(JGet(v, cRESULT))]

\* the payload as parse_risu_payload reads it: shape "null" when
\* payload.get("results", {}).items() raises (the payload or its results is
\* no mapping)
ToPayload(v) ==
    LET results == JGet(v, cRESULTS)
        has_metadata == JGet(v, cMETADATA).t = "obj" /\ ~Falsy(JGet(v, cMETADATA))
    IN  IF v.t # "obj" THEN [shape |-> "null", results |-> <<>>, metadata |-> "absent"]
        ELSE IF results.t = "none"
        THEN [shape |-> "absent", results |-> <<>>, metadata |-> IF has_metadata THEN "map" ELSE "absent"]
        ELSE IF results.t # "obj" THEN [shape |-> "null", results |-> <<>>, metadata |-> "absent"]
        ELSE [shape |-> "map",
              results |-> [i \in DOMAIN results.m |-> <<results.m[i][1], EntryOfJson(results.m[i][2])>>],
              metadata |-> IF has_metadata THEN "map" ELSE "absent"]

-----------------------------------------------------------------------------
(* run_diagnostics: the event handler                                      *)
(*                                                                         *)
(* A runner event is [event, host, host_name, inventory_hostname,          *)
(* inventory_hostname_short, stdout, msg, stderr, fact]: the event type,   *)
(* the four host fields of event_data, the stdout text, res.msg and        *)
(* res.stderr (texts) and res.ansible_facts.risu_data_json as fact =       *)
(* [kind: "none" | "str" | "dict", text, v]. A field that is absent is     *)
(* <<>>.                                                                   *)

\* HOST_IN_STDOUT_REGEX.search(stdout): the leftmost "[" followed by one or
\* more characters other than "]" and then "]"; the characters between
_extract_host_from_stdout(stdout) ==
    LET starts == {i \in DOMAIN stdout :
                      stdout[i] = "[" /\ FindFrom(stdout, <<"]">>, i + 1) > i + 1}
        first  == CHOOSE i \in starts : \A j \in starts : i <= j
    IN  IF stdout = <<>> \/ starts = {} THEN <<>>
        ELSE SubSeq(stdout, first + 1, FindFrom(stdout, <<"]">>, first + 1) - 1)

\* mutant: the host_name field is asked before the host field
HostKeyNameFirst(e) ==
    Or(Or(e.host_name,
          Or(e.host,
             Or(e.inventory_hostname,
                Or(e.inventory_hostname_short, _extract_host_from_stdout(e.stdout))))),
       UNKNOWN)

\* host_key = host or "unknown", host the first of the fields that is set
HostKey(e) ==
    Or(Or(e.host,
          Or(e.host_name,
             Or(e.inventory_hostname,
                Or(e.inventory_hostname_short, _extract_host_from_stdout(e.stdout))))),
       UNKNOWN)

\* "if payload:": something was extracted and it is not falsy
Truthy(res) == res.kind = "found" /\ ~Falsy(res.v)

\* payload = _extract_payload(text); if payload: host_payloads[host_key] = payload
StorePayload(payloads, host_key, res) ==
    IF Truthy(res) THEN DPut(payloads, host_key, res.v) ELSE payloads

\* the risu_data_json fact: a str is parsed and stored when it parses, a dict
\* is stored as it is
StoreFact(payloads, host_key, fact) ==
    IF fact.kind = "str"
    THEN IF json_loads(fact.text).ok THEN DPut(payloads, host_key, json_loads(fact.text).v) ELSE payloads
    ELSE IF fact.kind = "dict" THEN DPut(payloads, host_key, fact.v)
    ELSE payloads

cTASK_FAILED == <<"T", "a", "s", "k", " ", "f", "a", "i", "l", "e", "d">>

\* f"{host_key}: {_normalise_message(str(failure_msg))}"
EventError(host_key, failure_msg) ==
    <<Seg("", "", <<host_key>>, ": "), Seg("", "", <<_normalise_message(failure_msg)>>, "")>>

\* event_handler(event_data) on the locals host_logs, host_payloads, errors
event_handler(st, e) ==
    LET host_key == HostKey(e)
        stripped == Strip(e.stdout)
        failure_msg == Or(e.msg, Or(e.stderr, Or(e.stdout, cTASK_FAILED)))
        from_msg == StorePayload(st.host_payloads, host_key, _extract_payload(e.msg))
        from_fact == StoreFact(from_msg, host_key, e.fact)
    IN  [st EXCEPT
            !.host_logs = IF stripped # <<>>
                          THEN DPut(st.host_logs, host_key,
                                    Append(DGet(st.host_logs, host_key, <<>>), stripped))
                          ELSE st.host_logs,
            !.errors = IF e.event = "runner_on_failed"
                       THEN Append(st.errors, EventError(host_key, failure_msg))
                       ELSE st.errors,
            !.host_payloads = IF e.stdout # <<>>
                              THEN StorePayload(from_fact, host_key, _extract_payload(e.stdout))
                              ELSE from_fact]

-----------------------------------------------------------------------------
(* run_diagnostics: after interface.run, and the CLI fallback               *)
(*                                                                         *)
(* What interface.run returns is an input: outcome = [status, rc], rc as   *)
(* the normaliser's rc values. What _execute_risu_cli does for one host is *)
(* an input too: [kind |-> "payload" | "error" | "crash", v, exc]: it      *)
(* returns the value v, raises DiagnosticsError(exc), or raises another    *)
(* exception (json.JSONDecodeError of _run_local_risu).                    *)

\* the first entry of logs that holds a payload
RECURSIVE FirstPayload(_)
FirstPayload(logs) ==
    IF logs = <<>> THEN NotFound
    ELSE IF Truthy(_extract_payload(Head(logs))) THEN _extract_payload(Head(logs))
    ELSE FirstPayload(Tail(logs))

\* for host, logs in host_logs.items(): a host without payload takes the
\* first payload found in its logs
RECURSIVE PostPass(_, _)
PostPass(logs_items, payloads) ==
    IF logs_items = <<>> THEN payloads
    ELSE IF DHas(payloads, Head(logs_items)[1]) THEN PostPass(Tail(logs_items), payloads)
    ELSE PostPass(Tail(logs_items),
                  StorePayload(payloads, Head(logs_items)[1], FirstPayload(Head(logs_items)[2])))

\* list.sort(key=lambda result: result.host): r put after the results whose
\* host is not greater
RECURSIVE InsertByHost(_, _)
InsertByHost(sorted, r) ==
    IF sorted = <<>> THEN <<r>>
    ELSE IF StrLess(r.host, Head(sorted).host) THEN <<r>> \o sorted
    ELSE <<Head(sorted)>> \o InsertByHost(Tail(sorted), r)

RECURSIVE SortByHost(_, _)
SortByHost(sorted, rest) ==
    IF rest = <<>> THEN sorted ELSE SortByHost(InsertByHost(sorted, Head(rest)), Tail(rest))

DecimalDigits == <<"0", "1", "2", "3", "4", "5", "6", "7", "8", "9">>

\* str(n) for n >= 0
RECURSIVE IntText(_)
IntText(n) ==
    IF n < 10 THEN <<DecimalDigits[n + 1]>>
    ELSE IntText(n \div 10) \o <<DecimalDigits[(n % 10) + 1]>>

\* runner.status == "failed" or runner.rc not in (0, None)
PlaybookFailed(outcome) == outcome.status = "failed" \/ ~RcIsPass(outcome.rc)

\* f"Diagnostics playbook exited with code {rc_display} (status={runner.status})"
ExitMessage(outcome) ==
    <<Seg("Diagnostics playbook exited with code ", "",
          <<IF outcome.rc.shape = "null" THEN UNKNOWN ELSE IntText(outcome.rc.v)>>, " (status="),
      Seg(outcome.status, "", <<>>, ")")>>

cNO_PAYLOADS == <<Seg("No diagnostic payloads were captured. Check RISU availability.", "", <<>>, "")>>

EmptyCli == [crashed |-> FALSE, attempts |-> <<>>, results |-> <<>>, errors |-> <<>>, host_logs |-> <<>>]

\* one iteration of "for host in hosts" of _run_cli_fallback; only
\* DiagnosticsError is caught
CliStep(acc, h, outcome) ==
    LET tried == [acc EXCEPT !.attempts = Append(acc.attempts, h)]
        result == parse_risu_payload(h, ToPayload(outcome.v))
    IN  IF acc.crashed THEN acc
        ELSE IF outcome.kind = "error"
        THEN [tried EXCEPT !.errors = Append(tried.errors, HostError(h, outcome.exc))]
        ELSE IF outcome.kind = "crash" \/ result.raised THEN [tried EXCEPT !.crashed = TRUE]
        ELSE [tried EXCEPT !.results = Append(tried.results, result),
                           !.host_logs = DPut(tried.host_logs, h, <<>>)]

RECURSIVE CliLoop(_, _, _)
CliLoop(acc, hosts, outcomes) ==
    IF hosts = <<>> THEN acc
    ELSE CliLoop(CliStep(acc, Head(hosts), Head(outcomes)), Tail(hosts), Tail(outcomes))

\* status = "completed" if results and not errors else "failed"
CliStatus(results, errors) == IF results # <<>> /\ errors = <<>> THEN "completed" ELSE "failed"

\* _run_cli_fallback(hosts, ...)
_run_cli_fallback(hosts, outcomes) == CliLoop(EmptyCli, hosts, outcomes)

\* the commands started for a fallback
CliCommands(cli) == [i \in DOMAIN cli.attempts |-> <<"cli", cli.attempts[i]>>]

\* run_diagnostics raised: nothing is returned
DiagRaised(d, commands) ==
    [d EXCEPT !.phase = "raised", !.commands = commands]

\* return cli_run
ReturnCli(d, cli) ==
    [d EXCEPT !.phase = "returned",
              !.commands = d.commands \o CliCommands(cli),
              !.status = CliStatus(cli.results, cli.errors),
              !.results = cli.results,
              !.errors = cli.errors,
              !.runner_status = "cli_fallback",
              !.host_logs = cli.host_logs]

\* the results built from host_payloads, before the sort
PayloadResults(payloads) ==
    [i \in DOMAIN payloads |-> parse_risu_payload(payloads[i][1], ToPayload(payloads[i][2]))]

\* the fallback is taken after the playbook: no result was built
NeedsFallback(d) == PostPass(d.host_logs, d.host_payloads) = <<>>

\* run_diagnostics from the return of interface.run to its own return
\* (lines 353-394); cli_outcomes is read only when the fallback is taken
AfterRunner(d, outcome, cli_outcomes) ==
    LET payloads == PostPass(d.host_logs, d.host_payloads)
        built    == PayloadResults(payloads)
        results  == SortByHost(<<>>, built)
        errors   == IF PlaybookFailed(outcome) THEN <<ExitMessage(outcome)>> \o d.errors ELSE d.errors
        cli      == _run_cli_fallback(d.target_hosts, cli_outcomes)
    IN  IF \E i \in DOMAIN built : built[i].raised THEN DiagRaised(d, d.commands)
        ELSE IF results = <<>> /\ cli.crashed THEN DiagRaised(d, d.commands \o CliCommands(cli))
        ELSE IF results = <<>> /\ (cli.results # <<>> \/ cli.errors # <<>>) THEN ReturnCli(d, cli)
        ELSE [d EXCEPT !.phase = "returned",
                       !.commands = IF results = <<>> THEN d.commands \o CliCommands(cli) ELSE d.commands,
                       !.host_payloads = payloads,
                       !.status = IF PlaybookFailed(outcome) \/ results = <<>> THEN "failed" ELSE "completed",
                       !.results = results,
                       !.errors = _dedupe(IF results = <<>> /\ errors = <<>> THEN <<cNO_PAYLOADS>> ELSE errors),
                       !.runner_status = outcome.status]

\* interface.run raised (lines 347-351): the fallback, or DiagnosticsError
AfterRunnerRaised(d, cli_outcomes) ==
    LET cli == _run_cli_fallback(d.target_hosts, cli_outcomes)
    IN  IF cli.crashed \/ (cli.results = <<>> /\ cli.errors = <<>>)
        THEN DiagRaised(d, d.commands \o CliCommands(cli))
        ELSE ReturnCli(d, cli)

-----------------------------------------------------------------------------
(* State machine: one run_diagnostics call                                 *)
(*                                                                         *)
(* The inventory holds up to two hosts; the runner delivers up to          *)
(* MaxEvents events, each drawn from DiagEvents, and then returns or       *)
(* raises. The events are the shapes ansible-runner produces for the       *)
(* worker playbook: task results that name their host in event_data, and   *)
(* output lines that name it only in brackets or not at all.               *)

MaxEvents == 2

\* the text {"results":{"p":{"result":{"rc":5}}}}
J_CHECK ==
    <<"{", "\"", "r", "e", "s", "u", "l", "t", "s", "\"", ":", "{", "\"", "p", "\"", ":",
    "{", "\"", "r", "e", "s", "u", "l", "t", "\"", ":", "{", "\"", "r", "c", "\"", ":",
    "5", "}", "}", "}", "}">>

\* the text ok: [a]
cOK_A ==
    <<"o", "k", ":", " ", "[", "a", "]">>

\* the text fatal: [b]
cFATAL_B ==
    <<"f", "a", "t", "a", "l", ":", " ", "[", "b", "]">>

\* the text TASK [x]
cTASK_X ==
    <<"T", "A", "S", "K", " ", "[", "x", "]">>

\* the text boom
cBOOM ==
    <<"b", "o", "o", "m">>

\* the payload between the sentinels, as the worker playbook prints it
Wrapped == SENTINEL_START \o J_CHECK \o SENTINEL_END

Ev(event, host, host_name, inventory_hostname, inventory_hostname_short, stdout, msg, fact) ==
    [event |-> event, host |-> host, host_name |-> host_name,
     inventory_hostname |-> inventory_hostname,
     inventory_hostname_short |-> inventory_hostname_short,
     stdout |-> stdout, msg |-> msg, stderr |-> <<>>, fact |-> fact]

StrFact(text) == [kind |-> "str", text |-> text, v |-> JNone]

DictFact(text) == [kind |-> "dict", text |-> <<>>, v |-> json_loads(text).v]

DiagEvents ==
    { Ev("runner_on_ok", <<"a">>, <<>>, <<>>, <<>>, cOK_A, Wrapped, NoFact),
      Ev("runner_on_ok", <<>>, <<"b">>, <<>>, <<>>, <<>>, <<>>, StrFact(J_CHECK)),
      Ev("runner_on_ok", <<>>, <<>>, <<"b">>, <<"a">>, <<" ", " ">>, <<>>, DictFact(J_RESULTS)),
      Ev("runner_on_ok", <<"a">>, <<"b">>, <<"b">>, <<>>, <<"[", "z", "]", " ">> \o Wrapped, <<>>, NoFact),
      Ev("runner_on_ok", <<>>, <<>>, <<>>, <<"b">>, cOK_A, <<>>, StrFact(<<"{">>)),
      Ev("runner_on_failed", <<"b">>, <<>>, <<>>, <<>>, cFATAL_B, cBOOM, NoFact),
      Ev("verbose", <<>>, <<>>, <<>>, <<>>, <<"[", "b", "]", " ">> \o Wrapped, <<>>, NoFact),
      Ev("verbose", <<>>, <<>>, <<>>, <<>>, <<"[", "z", "]", " ">> \o Wrapped, <<>>, NoFact),
      Ev("verbose", <<>>, <<>>, <<>>, <<>>, Wrapped, <<>>, NoFact),
      Ev("playbook_on_task_start", <<>>, <<>>, <<>>, <<>>, cTASK_X, <<>>, NoFact) }

\* runner.status and runner.rc when interface.run returns
RunnerOutcomes ==
    { [status |-> "successful", rc |-> RcOf("int", 0)],
      [status |-> "failed", rc |-> RcOf("int", 2)],
      [status |-> "failed", rc |-> RcOf("null", 0)] }

\* what _execute_risu_cli does for one host
CliOutcomes ==
    { [kind |-> "payload", v |-> json_loads(J_CHECK).v, exc |-> <<>>],
      [kind |-> "error", v |-> JNone, exc |-> <<Seg("RISU CLI failed", "", <<>>, "")>>],
      [kind |-> "crash", v |-> JNone, exc |-> <<>>] }

DiagFiles == { <<>>, <<<<"a">>>>, <<<<"a">>, <<"b">>>> }

DiagSelectors == { ALL, <<"b">>, <<"z">> }

\* mutant: run_diagnostics goes on after a resolution that matched nothing
DiagRaisesNever(hosts, summ) == FALSE

\* hosts != "all" and not resolved.validated: DiagnosticsError
DiagRaises(hosts, summ) == hosts # ALL /\ ~validated_pkg(resolve_hosts_pkg(hosts, summ))

\* target_hosts of run_diagnostics
DiagTargets(hosts, summ) == IF hosts = ALL THEN summ.hosts ELSE resolve_hosts_pkg(hosts, summ).hosts

cPLAYBOOK == <<"playbook", <<>>>>

\* run_diagnostics(hosts, inventory=file) up to the call of interface.run
DiagStart(hosts) ==
    /\ pc = "start"
    /\ diag.phase = "idle"
    /\ \E summ \in {_parse_inventory_file(file)} :
          /\ summaryPkg' = summ
          /\ IF DiagRaises(hosts, summ)
             THEN diag' = [diag EXCEPT !.phase = "raised", !.hosts = hosts]
             ELSE diag' = [diag EXCEPT !.phase = "running", !.hosts = hosts,
                                       !.target_hosts = DiagTargets(hosts, summ),
                                       !.commands = <<cPLAYBOOK>>]
    /\ pc' = "diagnosing"
    /\ UNCHANGED <<file, summary, resolved, resolvedPkg, host_arg, combined,
                   payVars, runVars, extVars, conVars>>

\* interface.run delivers one event to event_handler
DiagEvent(e) ==
    /\ diag.phase = "running"
    /\ diag.handled < MaxEvents
    /\ \E after \in {event_handler(diag, e)} :
          diag' = [after EXCEPT !.handled = diag.handled + 1, !.last_event = e]
    /\ UNCHANGED <<invVars, payVars, runVars, extVars, conVars>>

\* interface.run raises
DiagRunnerRaises ==
    /\ diag.phase = "running"
    /\ \E cli_outcomes \in [1..Len(diag.target_hosts) -> CliOutcomes] :
       \E after \in {AfterRunnerRaised(diag, cli_outcomes)} :
          diag' = after
    /\ UNCHANGED <<invVars, payVars, runVars, extVars, conVars>>

\* interface.run returns, and run_diagnostics runs to its end
DiagFinish(outcome) ==
    /\ diag.phase = "running"
    /\ IF NeedsFallback(diag)
       THEN \E cli_outcomes \in [1..Len(diag.target_hosts) -> CliOutcomes] :
            \E after \in {AfterRunner(diag, outcome, cli_outcomes)} :
               diag' = after
       ELSE \E after \in {AfterRunner(diag, outcome, <<>>)} :
               diag' = after
    /\ UNCHANGED <<invVars, payVars, runVars, extVars, conVars>>

InitDiag == InvInit(DiagFiles) /\ PayIdle /\ RunIdle /\ ExtIdle /\ DiagIdle /\ ConIdle

DiagStartSome == \E hosts \in DiagSelectors : DiagStart(hosts)

DiagEventSome == \E e \in DiagEvents : DiagEvent(e)

DiagFinishSome == \E outcome \in RunnerOutcomes : DiagFinish(outcome)

NextDiag == DiagStartSome \/ DiagEventSome \/ DiagRunnerRaises \/ DiagFinishSome

SpecDiag == InitDiag /\ [][NextDiag]_vars

-----------------------------------------------------------------------------
(* State machine: the two entry points up to their first command           *)
(*                                                                         *)
(* DiagnosticsRunner.run (src/runner.py) and run_diagnostics               *)
(* (diagnostics.py) are called with the same selectors on the same files:  *)
(* the first runs to its end, the second to its call of interface.run.     *)

MaxEntryLines == 2

InitEntry == InvInit(FilesOf(RunLines, MaxEntryLines)) /\ PayIdle /\ RunIdle /\ ExtIdle /\ DiagIdle /\ ConIdle

EntryRun == \E hosts \in RunSelectors : Run(hosts)

EntryDiag == \E hosts \in RunSelectors : DiagStart(hosts)

NextEntry == EntryRun \/ EntryDiag

SpecEntry == InitEntry /\ [][NextEntry]_vars

\* C26: when the resolution of the selector is not validated, both entry
\* points raise before any command is started: DiagnosticsRunner.run has
\* called _execute_risu for no host, and run_diagnostics has started neither
\* the playbook nor a RISU CLI execution.
C26_RaisesBeforeAnyExecution ==
    /\ (/\ pc = "ran"
        /\ ~IsAllOrStar(run_hosts)
        /\ ~validated(resolve_hosts(run_hosts, summary)))
          => (report.raised /\ attempts = <<>>)
    /\ (/\ pc = "diagnosing"
        /\ diag.hosts # ALL
        /\ ~validated_pkg(resolve_hosts_pkg(diag.hosts, summaryPkg)))
          => (diag.phase = "raised" /\ diag.commands = <<>> /\ diag.handled = 0)

\* run_diagnostics was called with a selector that matches nothing in a file
\* that lists hosts, and raised
C26_Witness ==
    /\ pc = "diagnosing"
    /\ file # <<>>
    /\ summaryPkg.hosts # <<>>
    /\ diag.hosts = <<"z">>
    /\ diag.phase = "raised"
    /\ diag.commands = <<>>

-----------------------------------------------------------------------------
(* Properties of run_diagnostics                                           *)

\* the hosts of the results, in report order
ReportedHosts(d) == [i \in DOMAIN d.results |-> d.results[i].host]

\* C27: every result of the report run_diagnostics returns is for a targeted
\* host: none is for the key "unknown" or for a bracketed token of the output
\* that is no targeted host.
C27_ResultsAreForTargetedHosts ==
    diag.phase = "returned" =>
        \A i \in DOMAIN diag.results : diag.results[i].host \in Range(diag.target_hosts)

\* the hosts named by the errors of the report: every per-host error opens
\* with f"{host}: "
FailedHosts(d) ==
    {h \in Range(d.target_hosts) :
        \E i \in DOMAIN d.errors : Head(d.errors[i]) = Seg("", "", <<h>>, ": ")}

\* the hosts a RISU CLI execution was started for
CliAttempted(d) ==
    {d.commands[i][2] : i \in {j \in DOMAIN d.commands : d.commands[j][1] = "cli"}}

\* C24: when at least one targeted host has a result and at least one
\* targeted host failed, the report's status is partial, on the playbook path
\* and on the CLI fallback path; and every host the fallback executed that
\* did not fail has its result in the report.
C24_MixedOutcomeIsPartial ==
    diag.phase = "returned" =>
        /\ (/\ Range(ReportedHosts(diag)) \cap Range(diag.target_hosts) # {}
            /\ FailedHosts(diag) # {})
              => diag.status = "partial"
        /\ diag.runner_status = "cli_fallback" =>
              \A h \in CliAttempted(diag) :
                  h \in Range(ReportedHosts(diag)) \/ h \in FailedHosts(diag)

\* the key of the event: the first of the host fields that is set, then the
\* bracketed token of stdout, then "unknown"
FirstPresentKey(e) ==
    IF e.host # <<>> THEN e.host
    ELSE IF e.host_name # <<>> THEN e.host_name
    ELSE IF e.inventory_hostname # <<>> THEN e.inventory_hostname
    ELSE IF e.inventory_hostname_short # <<>> THEN e.inventory_hostname_short
    ELSE IF _extract_host_from_stdout(e.stdout) # <<>> THEN _extract_host_from_stdout(e.stdout)
    ELSE UNKNOWN

\* the payloads an event carries: in res.msg, in the risu_data_json fact, in
\* stdout
Carried(e) ==
    {_extract_payload(t).v : t \in {u \in {e.msg, e.stdout} : Truthy(_extract_payload(u))}}
    \cup (IF e.fact.kind = "dict" THEN {e.fact.v} ELSE {})
    \cup (IF e.fact.kind = "str" /\ json_loads(e.fact.text).ok THEN {json_loads(e.fact.text).v} ELSE {})

\* the keys of both dicts before and after
SlotKeys(d1, d2) == Range(DKeys(d1)) \cup Range(DKeys(d2))

\* the dicts agree on every key but key
SameButAt(d1, d2, key) ==
    \A k \in SlotKeys(d1, d2) \ {key} :
        DHas(d1, k) = DHas(d2, k) /\ DGet(d1, k, <<>>) = DGet(d2, k, <<>>)

\* C23: an event is stored under one key, the first present of the host
\* field, the host_name field, the inventory_hostname field, the
\* inventory_hostname_short field, the bracketed token of its stdout, and
\* else "unknown": its log line is appended to that key's log, its payload
\* takes that key's payload slot, and no log or payload slot of another key
\* changes.
C23_EventStoredUnderOneKey ==
    [][(diag.phase = "running" /\ diag'.phase = "running" /\ diag'.handled = diag.handled + 1) =>
          /\ SameButAt(diag.host_logs, diag'.host_logs, FirstPresentKey(diag'.last_event))
          /\ SameButAt(diag.host_payloads, diag'.host_payloads, FirstPresentKey(diag'.last_event))
          /\ IF Strip(diag'.last_event.stdout) # <<>>
             THEN DGet(diag'.host_logs, FirstPresentKey(diag'.last_event), <<>>)
                    = Append(DGet(diag.host_logs, FirstPresentKey(diag'.last_event), <<>>),
                             Strip(diag'.last_event.stdout))
             ELSE diag'.host_logs = diag.host_logs
          /\ IF Carried(diag'.last_event) # {}
             THEN /\ DHas(diag'.host_payloads, FirstPresentKey(diag'.last_event))
                  /\ DGet(diag'.host_payloads, FirstPresentKey(diag'.last_event), JNone)
                        \in Carried(diag'.last_event)
             ELSE diag'.host_payloads = diag.host_payloads
      ]_vars

\* two events were handled; the last one names its host only in brackets in
\* its stdout and carries a payload, which is stored under that host while
\* another key holds its own log and payload
C23_Witness ==
    /\ diag.phase = "running"
    /\ diag.handled = 2
    /\ diag.last_event.host = <<>>
    /\ diag.last_event.host_name = <<>>
    /\ diag.last_event.inventory_hostname = <<>>
    /\ diag.last_event.inventory_hostname_short = <<>>
    /\ _extract_host_from_stdout(diag.last_event.stdout) = <<"b">>
    /\ DHas(diag.host_payloads, <<"b">>)
    /\ DHas(diag.host_payloads, <<"a">>)
    /\ DGet(diag.host_logs, <<"a">>, <<>>) = <<cOK_A>>
    /\ Len(DGet(diag.host_logs, <<"b">>, <<>>)) = 1

====
